---- MODULE Spec2Model ----
(***************************************************************************)
(* Model of the container-runtime client of signalforge-dev:               *)
(*   src-tauri/src/commands.rs  (AppState and the tauri commands)          *)
(*   src-tauri/src/docker.rs    (DockerClient and its daemon requests)     *)
(*                                                                         *)
(* A task is one invocation of a tauri command.  Every `.await` of the     *)
(* source is a suspension point and ends an action; what runs between two  *)
(* suspension points is one action.  Strings are TLA+ strings, handled as  *)
(* sequences of characters with Len, Head, Tail and SubSeq.  An Option is  *)
(* a sequence of length 0 (None) or 1 (Some).                              *)
(***************************************************************************)
EXTENDS Integers, Sequences, FiniteSets, TLC

\* ------------------------------------------------------------------ bounds
MaxCalls == 2      \* commands invoked in one behaviour
MaxEnv == 1        \* daemon-side changes made by other clients of the daemon
MaxListLen == 3    \* containers the daemon reports in SpecList
MaxIfaces == 2     \* network interfaces in a stats sample in SpecStats
MaxLogLines == 2   \* entries in a container's log in SpecLogs
MaxNodes == 3      \* managed containers the daemon reports in SpecTopology

Tasks == {1, 2}
NoTask == 0
NoHandle == 0

\* --------------------------------------------------------------- constants
SIGNALFORGE_PREFIX == "signalforge-"

None == <<>>
Some(x) == <<x>>
IsSome(o) == Len(o) > 0
Unwrap(o) == o[1]

\* ----------------------------------------------------------------- strings
StartsWith(s, p) == Len(s) >= Len(p) /\ SubSeq(s, 1, Len(p)) = p

Contains(s, p) ==
    \E i \in 1..(Len(s) - Len(p) + 1) : SubSeq(s, i, i + Len(p) - 1) = p

RECURSIVE TrimStartMatches(_, _)
TrimStartMatches(s, ch) ==
    IF Len(s) > 0 /\ Head(s) = ch THEN TrimStartMatches(Tail(s), ch) ELSE s

\* str::to_lowercase, on the ASCII letters
UpperCase == <<"A", "B", "C", "D", "E", "F", "G", "H", "I", "J", "K", "L", "M",
               "N", "O", "P", "Q", "R", "S", "T", "U", "V", "W", "X", "Y", "Z">>
LowerCase == <<"a", "b", "c", "d", "e", "f", "g", "h", "i", "j", "k", "l", "m",
               "n", "o", "p", "q", "r", "s", "t", "u", "v", "w", "x", "y", "z">>

LowerChar(ch) ==
    IF \E i \in 1..26 : UpperCase[i] = ch
    THEN LowerCase[CHOOSE i \in 1..26 : UpperCase[i] = ch]
    ELSE ch

RECURSIVE to_lowercase(_)
to_lowercase(s) ==
    IF Len(s) = 0 THEN s ELSE LowerChar(Head(s)) \o to_lowercase(Tail(s))

\* u64::to_string: the decimal digits, most significant first
Digits == <<"0", "1", "2", "3", "4", "5", "6", "7", "8", "9">>

RECURSIVE to_string(_)
to_string(n) ==
    IF n < 10 THEN Digits[n + 1]
    ELSE to_string(n \div 10) \o Digits[(n % 10) + 1]

\* Option::unwrap_or
unwrap_or(o, dflt) == IF IsSome(o) THEN Unwrap(o) ELSE dflt

\* ------------------------------------------------- the daemon's containers
\* A container as the daemon's list request reports it (ContainerSummary):
\* id, names (Option<Vec<String>>) and state.
Summary(id, names, state) == [id |-> id, names |-> names, state |-> state]

CNginx == Summary("a1", Some(<<"/signalforge-nginx">>), "running")
CPhp == Summary("b2", Some(<<"/signalforge-php", "/web">>), "exited")
CForeign == Summary("c3", Some(<<"/myapp-nginx">>), "running")
CNoName == Summary("d4", None, "running")
CEmptyNames == Summary("e5", Some(<<>>), "running")
CBare == Summary("f6", Some(<<"signalforge-db">>), "running")
CSlashes == Summary("g7", Some(<<"//signalforge-redis">>), "exited")
CInfix == Summary("h8", Some(<<"/my-signalforge-app">>), "running")
CShort == Summary("i9", Some(<<"/signalforge">>), "running")
CUnknown == Summary("j0", Some(<<"/unknown">>), "running")

Catalog == {CNginx, CPhp, CForeign}

\* the containers other clients of the daemon may create meanwhile
Creatable == Catalog \cup {CBare}

\* the ids callers pass: a managed container's and a foreign container's
Ids == {CNginx.id, CForeign.id}

RECURSIVE SeqsOver(_, _)
\* the sequences of length n of distinct members of S
SeqsOver(S, n) ==
    IF n = 0 THEN {<<>>}
    ELSE UNION {{Append(q, c) : c \in {d \in S : \A i \in 1..Len(q) : q[i] # d}}
                : q \in SeqsOver(S, n - 1)}

\* the container list a behaviour starts from: a foreign container between
\* two managed ones
InitialLists == {<<CNginx, CForeign, CPhp>>}

IdsOf(list) == {list[i].id : i \in 1..Len(list)}

Find(list, id) == {i \in 1..Len(list) : list[i].id = id}

\* ------------------------------------------------ DockerClient::list_containers
\* c.names.as_ref().and_then(|names| names.first())
FirstName(c) ==
    IF IsSome(c.names) /\ Len(Unwrap(c.names)) > 0
    THEN Some(Unwrap(c.names)[1]) ELSE None

\* the name list_containers gives a container: the first name without its
\* leading slashes, "unknown" when the daemon reports none
ListName(c) ==
    IF IsSome(FirstName(c))
    THEN TrimStartMatches(Unwrap(FirstName(c)), "/") ELSE "unknown"

\* the name get_network_topology gives a container: the same, but the id
\* when the daemon reports no name
TopologyName(c) ==
    IF IsSome(FirstName(c))
    THEN TrimStartMatches(Unwrap(FirstName(c)), "/") ELSE c.id

\* mutant: the prefix is looked for anywhere in the name
IsManaged_Contains(name) == Contains(name, SIGNALFORGE_PREFIX)

IsManaged(name) == StartsWith(name, SIGNALFORGE_PREFIX)

ContainerInfo(c, name) == [id |-> c.id, name |-> name, state |-> c.state]

RECURSIVE FilterMap(_)
\* containers.into_iter().filter_map(..).collect()
FilterMap(list) ==
    IF list = <<>> THEN <<>>
    ELSE IF IsManaged(ListName(Head(list)))
         THEN <<ContainerInfo(Head(list), ListName(Head(list)))>>
                  \o FilterMap(Tail(list))
         ELSE FilterMap(Tail(list))

\* ------------------------------------------------------------ calculate_stats
\* u64 is modelled with 30 bits, so that two counters and their sum are
\* numbers TLC can hold and the sum of two counters can pass the maximum
U64_MAX == 2^30 - 1

\* an f64 is modelled as the exact fraction n/d in lowest terms, d > 0: the
\* counters of the model are far below 2^53, where `as f64` is exact; the
\* rounding of a quotient is not modelled
GCD(a, b) ==
    LET gcd[x \in Nat, y \in Nat] == IF y = 0 THEN x ELSE gcd[y, x % y]
    IN  gcd[a, b]

Abs(x) == IF x < 0 THEN 0 - x ELSE x

F64(n, d) ==
    LET g == GCD(Abs(n), Abs(d))
        sgn == IF d < 0 THEN 0 - 1 ELSE 1
    IN  [n |-> sgn * (n \div g), d |-> sgn * (d \div g)]

\* `x as f64`
AsF64(x) == [n |-> x, d |-> 1]

FSub(a, b) == F64(a.n * b.d - b.n * a.d, a.d * b.d)
FMul(a, b) == F64(a.n * b.n, a.d * b.d)
FDiv(a, b) == F64(a.n * b.d, a.d * b.n)
FPositive(a) == a.n > 0
FZero == [n |-> 0, d |-> 1]

\* bollard's Stats, as far as calculate_stats reads it
CPUStats(total_usage, system_cpu_usage, online_cpus) ==
    [cpu_usage |-> [total_usage |-> total_usage],
     system_cpu_usage |-> system_cpu_usage,
     online_cpus |-> online_cpus]

MemoryStats(usage, limit) == [usage |-> usage, limit |-> limit]

NetworkStats(rx_bytes, tx_bytes) == [rx_bytes |-> rx_bytes, tx_bytes |-> tx_bytes]

Stats(cpu_stats, precpu_stats, memory_stats, networks) ==
    [cpu_stats |-> cpu_stats, precpu_stats |-> precpu_stats,
     memory_stats |-> memory_stats, networks |-> networks]

\* mutant: the deltas are not tested for their sign
calculate_cpu_percent_Unguarded(stats) ==
    LET cpu_delta == FSub(AsF64(stats.cpu_stats.cpu_usage.total_usage),
                          AsF64(stats.precpu_stats.cpu_usage.total_usage))
        system_delta == FSub(AsF64(unwrap_or(stats.cpu_stats.system_cpu_usage, 0)),
                             AsF64(unwrap_or(stats.precpu_stats.system_cpu_usage, 0)))
        cpu_count == AsF64(unwrap_or(stats.cpu_stats.online_cpus, 1))
    IN  IF system_delta.n # 0
        THEN FMul(FMul(FDiv(cpu_delta, system_delta), cpu_count), AsF64(100))
        ELSE FZero

calculate_cpu_percent(stats) ==
    LET cpu_delta == FSub(AsF64(stats.cpu_stats.cpu_usage.total_usage),
                          AsF64(stats.precpu_stats.cpu_usage.total_usage))
        system_delta == FSub(AsF64(unwrap_or(stats.cpu_stats.system_cpu_usage, 0)),
                             AsF64(unwrap_or(stats.precpu_stats.system_cpu_usage, 0)))
        cpu_count == AsF64(unwrap_or(stats.cpu_stats.online_cpus, 1))
    IN  IF FPositive(system_delta) /\ FPositive(cpu_delta)
        THEN FMul(FMul(FDiv(cpu_delta, system_delta), cpu_count), AsF64(100))
        ELSE FZero

\* mutant: an unreported limit counts as 0
memory_limit_Zero(stats) == unwrap_or(stats.memory_stats.limit, 0)

memory_limit(stats) == unwrap_or(stats.memory_stats.limit, 1)

memory_usage(stats) == unwrap_or(stats.memory_stats.usage, 0)

memory_percent(usage, limit) ==
    IF limit > 0 THEN FMul(FDiv(AsF64(usage), AsF64(limit)), AsF64(100))
    ELSE FZero

\* `a + b` on u64: the sum when it fits; when it does not, a build with
\* overflow checks panics and a build without them wraps
Overflows(a, b) == a + b > U64_MAX
WrappingAdd(a, b) == (a + b) % (U64_MAX + 1)

RECURSIVE FoldNetworks(_, _)
\* networks.values().fold((0, 0), |(rx, tx), net| (rx + net.rx_bytes, tx + net.tx_bytes))
\* acc is [rx, tx, overflowed]
FoldNetworks(nets, acc) ==
    IF nets = <<>> THEN acc
    ELSE FoldNetworks(Tail(nets),
            [rx |-> WrappingAdd(acc.rx, Head(nets).rx_bytes),
             tx |-> WrappingAdd(acc.tx, Head(nets).tx_bytes),
             overflowed |-> \/ acc.overflowed
                            \/ Overflows(acc.rx, Head(nets).rx_bytes)
                            \/ Overflows(acc.tx, Head(nets).tx_bytes)])

NetworkTotals(stats) ==
    IF IsSome(stats.networks)
    THEN FoldNetworks(Unwrap(stats.networks),
                      [rx |-> 0, tx |-> 0, overflowed |-> FALSE])
    ELSE [rx |-> 0, tx |-> 0, overflowed |-> FALSE]

\* the ContainerStats calculate_stats returns when it returns
calculate_stats(stats) ==
    [cpu_percent |-> calculate_cpu_percent(stats),
     memory_usage |-> memory_usage(stats),
     memory_limit |-> memory_limit(stats),
     memory_percent |-> memory_percent(memory_usage(stats), memory_limit(stats)),
     network_rx |-> NetworkTotals(stats).rx,
     network_tx |-> NetworkTotals(stats).tx]

\* the sample the daemon reports in Spec
PlainStats ==
    Stats(CPUStats(5, Some(7), Some(2)), CPUStats(2, Some(3), None),
          MemoryStats(Some(3), Some(4)), Some(<<NetworkStats(3, 4)>>))

\* ------------------------------------------------------- get_container_logs
\* an entry of a container's log as the daemon keeps it
LogEntry(stream, time, message) ==
    [stream |-> stream, time |-> time, message |-> message]

\* mutant: stderr is not asked for
LogsOptions_StdoutOnly(tail) ==
    [stdout |-> TRUE, stderr |-> FALSE,
     tail |-> IF IsSome(tail) THEN to_string(Unwrap(tail)) ELSE "100",
     timestamps |-> TRUE]

\* LogsOptions { stdout: true, stderr: true, tail, timestamps: true, .. }
LogsOptions(tail) ==
    [stdout |-> TRUE, stderr |-> TRUE,
     tail |-> IF IsSome(tail) THEN to_string(Unwrap(tail)) ELSE "100",
     timestamps |-> TRUE]

\* the daemon reads the tail parameter as a decimal number
DigitValue(ch) == CHOOSE d \in 0..9 : Digits[d + 1] = ch

RECURSIVE ParseDecimal(_)
ParseDecimal(s) ==
    IF Len(s) = 0 THEN 0
    ELSE ParseDecimal(SubSeq(s, 1, Len(s) - 1)) * 10
             + DigitValue(SubSeq(s, Len(s), Len(s)))

\* the frames the daemon delivers for a logs request with these options: the
\* entries of the streams asked for, the last `tail` of them, each with its
\* timestamp in front when timestamps are asked for
LogFrames(entries, options) ==
    LET Wanted(e) == \/ e.stream = "stdout" /\ options.stdout
                     \/ e.stream = "stderr" /\ options.stderr
        wanted == SelectSeq(entries, Wanted)
        n == ParseDecimal(options.tail)
        last == IF Len(wanted) > n
                THEN SubSeq(wanted, Len(wanted) - n + 1, Len(wanted))
                ELSE wanted
    IN  [k \in 1..Len(last) |->
            [stream |-> last[k].stream,
             message |-> IF options.timestamps
                         THEN last[k].time \o " " \o last[k].message
                         ELSE last[k].message]]

\* output.to_string(): the frame's text, without its stream tag
LogLine(output) == output.message

\* the log the daemon keeps for every container in Spec
PlainLog == <<LogEntry("stdout", "t1", "ready"), LogEntry("stderr", "t2", "warn")>>

\* ------------------------------------------------------- get_network_topology
\* network_settings.networks maps a network's name to its EndpointSettings
EndpointSettings(ip_address) == [ip_address |-> ip_address]

\* the address a container has on a network
AddressOn(network) == IF network = "net1" THEN "10.0.1.2" ELSE "10.0.2.2"

\* the networks map of a container attached to the networks of S
Endpoints(S) == [n \in S |-> EndpointSettings(Some(AddressOn(n)))]

\* which parts of a container's state an inspect reports: the state itself,
\* its health-check entry (Option<Health>, a Health being its Option status)
\* and its running flag
StateReport(reported, health, running) ==
    [reported |-> reported, health |-> health, running |-> running]

Health(status) == [status |-> status]

\* the state of a container without a health check
PlainState == StateReport(TRUE, None, TRUE)

\* what inspect_container reports: the image of the config, the networks and
\* the ports of the network settings (both maps), and the state
InspectReport(image, networks, ports, state) ==
    [image |-> image, networks |-> networks, ports |-> ports, state |-> state]

\* a report without ports, of a container without a health check; `networks`
\* is the set of the networks the container is attached to
InspectData(image, networks) ==
    InspectReport(image,
                  IF IsSome(networks) THEN Some(Endpoints(Unwrap(networks))) ELSE None,
                  None, PlainState)

\* HealthStatusEnum as the daemon spells it
HealthStatusEnum == {"", "none", "starting", "healthy", "unhealthy"}

\* mutant: a container that is not running is stopped, whatever its health check
health_RunningFirst(state) ==
    IF ~unwrap_or(IF IsSome(state) THEN Unwrap(state).running ELSE None, FALSE)
    THEN "stopped"
    ELSE IF IsSome(state) /\ IsSome(Unwrap(state).health)
         THEN LET status == Unwrap(Unwrap(state).health).status IN
              IF status \in {Some("healthy"), Some("starting"), Some("unhealthy")}
              THEN Unwrap(status) ELSE "unknown"
         ELSE "healthy"

\* the health of a node from inspect.state (Option<ContainerState>)
health(state) ==
    LET h == IF IsSome(state) THEN Unwrap(state).health ELSE None
        running == IF IsSome(state) THEN Unwrap(state).running ELSE None
    IN  IF IsSome(h)
        THEN CASE Unwrap(h).status = Some("healthy") -> "healthy"
               [] Unwrap(h).status = Some("starting") -> "starting"
               [] Unwrap(h).status = Some("unhealthy") -> "unhealthy"
               [] OTHER -> "unknown"
        ELSE IF unwrap_or(running, FALSE) THEN "healthy" ELSE "stopped"

\* nets.values().next(): the address on the first network the map is iterated
\* in, `networks` being the order of its keys; "N/A" without one
ip(endpoints, networks) ==
    IF IsSome(endpoints) /\ networks # <<>>
    THEN unwrap_or(Unwrap(endpoints)[networks[1]].ip_address, "N/A")
    ELSE "N/A"

RECURSIVE BeforeSlash(_)
\* k.split('/').next(): the part of k before its first slash
BeforeSlash(k) ==
    IF Len(k) = 0 \/ Head(k) = "/" THEN ""
    ELSE Head(k) \o BeforeSlash(Tail(k))

RECURSIVE Join(_, _)
\* [&str]::join
Join(strs, sep) ==
    IF strs = <<>> THEN ""
    ELSE IF Len(strs) = 1 THEN strs[1]
    ELSE strs[1] \o sep \o Join(Tail(strs), sep)

\* the ports of a node: the port numbers of the keys of network_settings.ports
\* in the order `keys` the map is iterated in, "-" without any
ports(reported, keys) ==
    LET joined == Join([i \in 1..Len(keys) |-> BeforeSlash(keys[i])], ",")
    IN  IF IsSome(reported) /\ joined # "" THEN joined ELSE "-"

\* `c as u32` on the characters container ids are made of
CharCode(ch) ==
    IF \E i \in 1..10 : Digits[i] = ch
    THEN 47 + (CHOOSE i \in 1..10 : Digits[i] = ch)
    ELSE IF \E i \in 1..26 : LowerCase[i] = ch
    THEN 96 + (CHOOSE i \in 1..26 : LowerCase[i] = ch)
    ELSE 45

RECURSIVE CharSum(_)
\* container_id.chars().map(|c| c as u32).sum::<u32>()
CharSum(id) == IF Len(id) = 0 THEN 0 ELSE CharCode(Head(id)) + CharSum(Tail(id))

\* the placeholder figures of a node
cpu(container_id) == CharSum(container_id) % 20
mem(container_id) == CharSum(container_id) % 2048

\* mutant: php is looked for before nginx
container_type_PhpFirst(image) ==
    IF Contains(image, "php") THEN "app"
    ELSE IF Contains(image, "nginx") THEN "gateway"
    ELSE IF Contains(image, "mysql") \/ Contains(image, "postgres")
            \/ Contains(image, "mariadb") THEN "database"
    ELSE IF Contains(image, "redis") \/ Contains(image, "memcache") THEN "cache"
    ELSE "other"

\* the role of a container whose lowercased image is `image`
container_type(image) ==
    IF Contains(image, "nginx") THEN "gateway"
    ELSE IF Contains(image, "php") THEN "app"
    ELSE IF Contains(image, "mysql") \/ Contains(image, "postgres")
            \/ Contains(image, "mariadb") THEN "database"
    ELSE IF Contains(image, "redis") \/ Contains(image, "memcache") THEN "cache"
    ELSE "other"

\* Vec::contains
VecContains(v, x) == \E i \in 1..Len(v) : v[i] = x

\* network_map is a HashMap<String, Vec<String>>, modelled as the sequence of
\* its entries [network, container_ids]; the order of the sequence is not the
\* order the map is iterated in
RECURSIVE PushAll(_, _, _)
\* for network in &networks { network_map.entry(network).or_insert_with(Vec::new).push(id) }
PushAll(network_map, networks, id) ==
    IF networks = <<>> THEN network_map
    ELSE LET network == Head(networks)
             at == {i \in 1..Len(network_map) : network_map[i].network = network}
             pushed ==
                 IF at = {}
                 THEN Append(network_map,
                             [network |-> network, container_ids |-> <<id>>])
                 ELSE [i \in 1..Len(network_map) |->
                          IF i \in at
                          THEN [network_map[i] EXCEPT !.container_ids = Append(@, id)]
                          ELSE network_map[i]]
         IN  PushAll(pushed, Tail(networks), id)

\* mutant: the two ends of an edge change places
NetworkConnection_Reversed(from, to, protocol, network) ==
    [from |-> to, to |-> from, protocol |-> protocol, network |-> network]

NetworkConnection(from, to, protocol, network) ==
    [from |-> from, to |-> to, protocol |-> protocol, network |-> network]

\* the label of an app -> database edge
DatabaseProtocol(db) ==
    IF Contains(db.name, "mysql") \/ Contains(db.name, "mariadb") THEN "MySQL"
    ELSE IF Contains(db.name, "postgres") THEN "PostgreSQL"
    ELSE "Database"

\* mutant: every x is paired with the first y only
Pairs_FirstMatch(xs, ys) ==
    [k \in 1..(IF Len(ys) = 0 THEN 0 ELSE Len(xs)) |-> <<xs[k], ys[1]>>]

\* for x in xs { for y in ys { .. } }: the pairs in the order the loops meet them
Pairs(xs, ys) ==
    [k \in 1..(Len(xs) * Len(ys)) |->
        <<xs[((k - 1) \div Len(ys)) + 1], ys[((k - 1) % Len(ys)) + 1]>>]

\* mutant: the containers of a role are not narrowed to the network's
OnNetwork_Any(container_ids, c) == c.id = c.id

OnNetwork(container_ids, c) == VecContains(container_ids, c.id)

RECURSIVE infer_connections(_, _)
\* the edges of the networks of `entries`, which lists network_map's entries
\* in the order the map is iterated in
infer_connections(containers, entries) ==
    IF entries = <<>> THEN <<>>
    ELSE LET network == Head(entries).network
             container_ids == Head(entries).container_ids
             IsGateway(c) == OnNetwork(container_ids, c) /\ c.container_type = "gateway"
             IsApp(c) == OnNetwork(container_ids, c) /\ c.container_type = "app"
             IsDatabase(c) == OnNetwork(container_ids, c) /\ c.container_type = "database"
             IsCache(c) == OnNetwork(container_ids, c) /\ c.container_type = "cache"
             gateways == SelectSeq(containers, IsGateway)
             apps == SelectSeq(containers, IsApp)
             databases == SelectSeq(containers, IsDatabase)
             caches == SelectSeq(containers, IsCache)
             ga == Pairs(gateways, apps)
             ad == Pairs(apps, databases)
             ac == Pairs(apps, caches)
         IN  [k \in 1..Len(ga) |->
                 NetworkConnection(ga[k][1].id, ga[k][2].id, "FastCGI", network)]
             \o [k \in 1..Len(ad) |->
                 NetworkConnection(ad[k][1].id, ad[k][2].id,
                                   DatabaseProtocol(ad[k][2]), network)]
             \o [k \in 1..Len(ac) |->
                 NetworkConnection(ac[k][1].id, ac[k][2].id, "Redis", network)]
             \o infer_connections(containers, Tail(entries))

\* the orders a HashMap holding the members of S may be iterated in
Orders(S) == SeqsOver(S, Cardinality(S))

\* what inspect_container reports for the containers of Spec: the stack of
\* one gateway, one app, one database and one cache on one network
PlainInspect ==
    [i \in {"a1", "b2", "f6", "g7"} |->
        CASE i = "a1" -> InspectData(Some("nginx:latest"), Some({"net1"}))
          [] i = "b2" -> InspectData(Some("php:8.4-fpm"), Some({"net1"}))
          [] i = "f6" -> InspectData(Some("mysql:8"), Some({"net1"}))
          [] i = "g7" -> InspectData(Some("redis:7"), Some({"net1"}))]

\* ------------------------------------------------------------------ results
Ok(v) == [tag |-> "Ok", msg |-> "", cause |-> "", val |-> v]
Err(m, e) == [tag |-> "Err", msg |-> m, cause |-> e, val |-> <<>>]
Pending == [tag |-> "Pending", msg |-> "", cause |-> "", val |-> <<>>]
NotConnected == Err("Docker is not connected", "")

\* -------------------------------------------------------------------- state
VARIABLES
    docker,      \* AppState.docker: NoHandle (None) or the handle of Some(client)
    stateLock,   \* the task holding the AppState mutex, or NoTask
    clientLock,  \* the task holding the DockerClient's mutex, or NoTask
    daemon,      \* the container daemon: its container list, whether it answers,
                 \* and what it reports on a stats, logs or inspect request
    pc,          \* where each task is: idle, outer, inner, await, done, panicked
    cmd,         \* the command each task runs: [op, id, tail]
    req,         \* the daemon request each task has in flight: [kind, id, via, options]
    loc,         \* the locals of get_network_topology and get_container_logs:
                 \* [list, idx, nodes, network_map, logs]
    ret,         \* what each task's command returned
    nreq,        \* history: the daemon requests each task's command has sent
    seen,        \* history: the handle each task's command found in AppState
    acted,       \* history: <<kind, id>> of the by-id requests the daemon carried out
    lastServed,  \* history: the task whose request the daemon answered last
    lists,       \* history: <<previous, last>> successful list_containers calls
    calls,       \* commands invoked so far
    env,         \* daemon-side changes so far
    menu         \* the commands the caller layer invokes in this behaviour

vars == <<docker, stateLock, clientLock, daemon, pc, cmd, req, loc, ret, nreq,
          seen, acted, lastServed, lists, calls, env, menu>>

NoReq == [kind |-> "none", id |-> "", via |-> NoHandle, options |-> None]
NoLoc == [list |-> <<>>, idx |-> 0, nodes |-> <<>>, network_map |-> <<>>,
          logs |-> <<>>]
NoCmd == [op |-> "none", id |-> "", tail |-> None]
NoList == [snap |-> <<>>, res |-> <<>>, n |-> 0]

ById == {"start_container", "stop_container", "restart_container",
         "get_container_stats", "get_container_logs"}
Plain == {"check_docker_connection", "connect_docker", "list_containers",
          "get_docker_info", "get_network_topology"}
Commands == {[op |-> o, id |-> "", tail |-> None] : o \in Plain}
                \cup {[op |-> o, id |-> i, tail |-> None] : o \in ById, i \in Ids}

\* a behaviour's workload: one command, or two that may run concurrently
Menus == {{a, b} : a, b \in Commands}

\* what the daemon reports in Spec beyond its container list: one stats sample
\* for the managed container and none for the foreign one, the same log for
\* every container
PlainReports ==
    [stats : {[i \in Ids |-> IF i = CNginx.id THEN <<PlainStats>> ELSE <<>>]},
     logs : {[i \in Ids |-> PlainLog]},
     inspect : {PlainInspect}]

Daemon(containers, up, reports) ==
    [containers |-> containers, up |-> up, stats |-> reports.stats,
     logs |-> reports.logs, inspect |-> reports.inspect]

\* AppState::new: the handle exists iff DockerClient::new() succeeded (the
\* daemon answers by the time the first command is invoked)
Init ==
    /\ docker \in {NoHandle, 1}
    /\ stateLock = NoTask
    /\ clientLock = NoTask
    /\ daemon \in {Daemon(l, TRUE, r) : l \in InitialLists, r \in PlainReports}
    /\ pc = [t \in Tasks |-> "idle"]
    /\ cmd = [t \in Tasks |-> NoCmd]
    /\ req = [t \in Tasks |-> NoReq]
    /\ loc = [t \in Tasks |-> NoLoc]
    /\ ret = [t \in Tasks |-> Pending]
    /\ nreq = [t \in Tasks |-> 0]
    /\ seen = [t \in Tasks |-> NoHandle]
    /\ acted = {}
    /\ lastServed = NoTask
    /\ lists = <<NoList, NoList>>
    /\ calls = 0
    /\ env = 0
    /\ menu \in Menus

\* ------------------------------------------------------------------- daemon
Exists(id) == Find(daemon.containers, id) # {}

Lookup(id) == daemon.containers[CHOOSE i \in Find(daemon.containers, id) : TRUE]

SetState(list, id, st) ==
    [i \in 1..Len(list) |->
        IF list[i].id = id THEN [list[i] EXCEPT !.state = st] ELSE list[i]]

Remove(list, i) == SubSeq(list, 1, i - 1) \o SubSeq(list, i + 1, Len(list))

\* the error a by-id request meets, "" when the daemon carries it out
DaemonError(id) ==
    IF ~daemon.up THEN "connection refused"
    ELSE IF ~Exists(id) THEN "no such container"
    ELSE ""

\* the state a lifecycle request leaves the container in
StateAfter(kind) == IF kind = "stop" THEN "exited" ELSE "running"

\* ------------------------------------------------------------------ mutexes
\* tokio::sync::Mutex::lock().await completes only while nobody holds the mutex
\* mutant: the lock is granted while somebody holds it
MutexFree_Ignored(owner) == owner = owner

MutexFree(owner) == owner = NoTask

\* a guard of task t going out of scope
Drop(owner, t) == IF owner = t THEN NoTask ELSE owner

\* ------------------------------------------------------------ task plumbing
\* the command returns r: both guards go out of scope
Return(t, r) ==
    /\ ret' = [ret EXCEPT ![t] = r]
    /\ pc' = [pc EXCEPT ![t] = "done"]
    /\ req' = [req EXCEPT ![t] = NoReq]
    /\ loc' = [loc EXCEPT ![t] = NoLoc]
    /\ stateLock' = Drop(stateLock, t)
    /\ clientLock' = Drop(clientLock, t)

\* mutant: stop and restart leave the grace period to the daemon
RequestOptions_NoGrace(kind, c) ==
    CASE kind = "list" -> Some([all |-> TRUE])
      [] kind = "logs" -> Some(LogsOptions(c.tail))
      [] kind = "stats" -> Some([stream |-> FALSE, one_shot |-> TRUE])
      [] OTHER -> None

\* the options each daemon request is made with
RequestOptions(kind, c) ==
    CASE kind = "list" -> Some([all |-> TRUE])
      [] kind = "stop" -> Some([t |-> 10])
      [] kind = "restart" -> Some([t |-> 10])
      [] kind = "logs" -> Some(LogsOptions(c.tail))
      [] kind = "stats" -> Some([stream |-> FALSE, one_shot |-> TRUE])
      [] OTHER -> None

\* the task starts a daemon round trip and suspends on it
Send(t, kind, id) ==
    /\ req' = [req EXCEPT ![t] = [kind |-> kind, id |-> id, via |-> seen[t],
                                  options |-> RequestOptions(kind, cmd[t])]]
    /\ nreq' = [nreq EXCEPT ![t] = @ + 1]
    /\ pc' = [pc EXCEPT ![t] = "await"]

Awaiting(t, op, kind) ==
    pc[t] = "await" /\ cmd[t].op = op /\ req[t].kind = kind

\* the first daemon request of each DockerClient method
FirstRequest(op) ==
    CASE op = "list_containers" -> "list"
      [] op = "get_network_topology" -> "list"
      [] op = "start_container" -> "start"
      [] op = "stop_container" -> "stop"
      [] op = "restart_container" -> "restart"
      [] op = "get_container_stats" -> "stats"
      [] op = "get_container_logs" -> "logs"
      [] op = "get_docker_info" -> "info"

\* ----------------------------------------------------------------- commands
\* tauri::generate_handler![..]: the docker commands the caller layer reaches
invoke_handler ==
    {"check_docker_connection", "connect_docker", "list_containers",
     "start_container", "stop_container", "restart_container",
     "get_container_stats", "get_docker_info", "get_network_topology"}

\* what the caller layer gets for a command the handler does not know
CommandNotFound(op) == Err("Command not found", op)

\* the caller layer invokes command c: a command of the handler is about to
\* lock AppState.docker, any other is rejected without running
Invoke(t, c) ==
    /\ pc[t] \in {"idle", "done"}
    /\ calls < MaxCalls
    /\ c \in menu
    /\ calls' = calls + 1
    /\ cmd' = [cmd EXCEPT ![t] = c]
    /\ IF c.op \in invoke_handler
       THEN /\ pc' = [pc EXCEPT ![t] = "outer"]
            /\ ret' = [ret EXCEPT ![t] = Pending]
       ELSE /\ pc' = [pc EXCEPT ![t] = "done"]
            /\ ret' = [ret EXCEPT ![t] = CommandNotFound(c.op)]
    /\ loc' = [loc EXCEPT ![t] = NoLoc]
    /\ nreq' = [nreq EXCEPT ![t] = 0]
    /\ seen' = [seen EXCEPT ![t] = NoHandle]
    /\ UNCHANGED <<docker, stateLock, clientLock, daemon, req, acted,
                   lastServed, lists, env, menu>>

\* mutant: a liveness probe instead of a presence check
is_some_Probe(d) == d # NoHandle /\ daemon.up

\* Option::is_some
is_some(d) == d # NoHandle

\* mutant: the None arm is never taken
HasClient_Always(d) == d = d

\* docker.as_ref() matches Some(client)
HasClient(d) == d # NoHandle

\* check_docker_connection: lock, Ok(docker.is_some()), unlock
check_docker_connection(t) ==
    /\ pc[t] = "outer" /\ cmd[t].op = "check_docker_connection"
    /\ MutexFree(stateLock)
    /\ seen' = [seen EXCEPT ![t] = docker]
    /\ Return(t, Ok(<<is_some(docker)>>))
    /\ UNCHANGED <<docker, daemon, cmd, nreq, acted, lastServed, lists,
                   calls, env, menu>>

\* mutant: connecting is refused while a handle exists
ConnectOutcomes_RefusesSecond ==
    IF docker # NoHandle THEN {FALSE}
    ELSE IF daemon.up THEN {TRUE} ELSE {TRUE, FALSE}

\* Docker::connect_with_local_defaults(): succeeds when the daemon is
\* reachable; when it is not, the library may still build a handle
ConnectOutcomes == IF daemon.up THEN {TRUE} ELSE {TRUE, FALSE}

\* mutant: the handle is assigned whatever DockerClient::new() gave, as in
\* AppState::new, so a failed connect clears it
connect_docker_ClearsOnFailure(t) ==
    /\ pc[t] = "outer" /\ cmd[t].op = "connect_docker"
    /\ MutexFree(stateLock)
    /\ seen' = [seen EXCEPT ![t] = docker]
    /\ \E ok \in ConnectOutcomes :
          IF ok
          THEN /\ docker' = docker + 1
               /\ ret' = [ret EXCEPT ![t] = Ok(<<TRUE>>)]
               /\ clientLock' = NoTask
          ELSE /\ docker' = NoHandle
               /\ ret' = [ret EXCEPT ![t] =
                            Err("Failed to connect to Docker", "connection refused")]
               /\ clientLock' = NoTask
    /\ pc' = [pc EXCEPT ![t] = "done"]
    /\ stateLock' = Drop(stateLock, t)
    /\ UNCHANGED <<daemon, cmd, req, loc, nreq, acted, lastServed, lists,
                   calls, env, menu>>

\* connect_docker: lock, DockerClient::new(), on Ok replace the handle
connect_docker(t) ==
    /\ pc[t] = "outer" /\ cmd[t].op = "connect_docker"
    /\ MutexFree(stateLock)
    /\ seen' = [seen EXCEPT ![t] = docker]
    /\ \E ok \in ConnectOutcomes :
          IF ok
          THEN /\ docker' = docker + 1
               /\ ret' = [ret EXCEPT ![t] = Ok(<<TRUE>>)]
               /\ clientLock' = NoTask
          ELSE /\ docker' = docker
               /\ ret' = [ret EXCEPT ![t] =
                            Err("Failed to connect to Docker", "connection refused")]
               /\ clientLock' = clientLock
    /\ pc' = [pc EXCEPT ![t] = "done"]
    /\ stateLock' = Drop(stateLock, t)
    /\ UNCHANGED <<daemon, cmd, req, loc, nreq, acted, lastServed, lists,
                   calls, env, menu>>

\* a command function called as a function, past the invoke handler
Call(t, c) ==
    /\ pc[t] \in {"idle", "done"}
    /\ calls < MaxCalls
    /\ c \in menu
    /\ calls' = calls + 1
    /\ cmd' = [cmd EXCEPT ![t] = c]
    /\ pc' = [pc EXCEPT ![t] = "outer"]
    /\ ret' = [ret EXCEPT ![t] = Pending]
    /\ loc' = [loc EXCEPT ![t] = NoLoc]
    /\ nreq' = [nreq EXCEPT ![t] = 0]
    /\ seen' = [seen EXCEPT ![t] = NoHandle]
    /\ UNCHANGED <<docker, stateLock, clientLock, daemon, req, acted,
                   lastServed, lists, env, menu>>

\* mutant: the command takes the client out of AppState and lets the outer
\* guard go before it calls the client
LockState_ReleasesOuter(t) ==
    /\ pc[t] = "outer"
    /\ cmd[t].op \notin {"check_docker_connection", "connect_docker"}
    /\ MutexFree(stateLock)
    /\ seen' = [seen EXCEPT ![t] = docker]
    /\ IF HasClient(docker)
       THEN /\ stateLock' = stateLock
            /\ pc' = [pc EXCEPT ![t] = "inner"]
            /\ UNCHANGED <<ret, req, loc, clientLock>>
       ELSE /\ Return(t, NotConnected)
    /\ UNCHANGED <<docker, daemon, cmd, nreq, acted, lastServed, lists,
                   calls, env, menu>>

\* every other command: lock AppState.docker and match docker.as_ref():
\* None returns the not-connected error, Some(client) calls the client
LockState(t) ==
    /\ pc[t] = "outer"
    /\ cmd[t].op \notin {"check_docker_connection", "connect_docker"}
    /\ MutexFree(stateLock)
    /\ seen' = [seen EXCEPT ![t] = docker]
    /\ IF HasClient(docker)
       THEN /\ stateLock' = t
            /\ pc' = [pc EXCEPT ![t] = "inner"]
            /\ UNCHANGED <<ret, req, loc, clientLock>>
       ELSE /\ Return(t, NotConnected)
    /\ UNCHANGED <<docker, daemon, cmd, nreq, acted, lastServed, lists,
                   calls, env, menu>>

\* self.client.lock().await at the head of every DockerClient method, then
\* the method's first daemon request
LockClient(t) ==
    /\ pc[t] = "inner"
    /\ MutexFree(clientLock)
    /\ clientLock' = t
    /\ Send(t, FirstRequest(cmd[t].op), cmd[t].id)
    /\ UNCHANGED <<docker, stateLock, daemon, cmd, loc, ret, seen, acted,
                   lastServed, lists, calls, env, menu>>

IsRunning(c) == c.state = "running"

\* mutant: `all: true` forgotten, stopped containers are not fetched
Fetched_RunningOnly == SelectSeq(daemon.containers, IsRunning)

\* mutant: the first list fetched is kept and served again
Fetched_Cached == IF lists[2].n > 0 THEN lists[2].snap ELSE daemon.containers

\* what docker.list_containers(all: true) fetches: the daemon's containers now
Fetched == daemon.containers

LifecycleMessage(kind) ==
    CASE kind = "start" -> "Failed to start container"
      [] kind = "stop" -> "Failed to stop container"
      [] kind = "restart" -> "Failed to restart container"

\* the daemon answers the task's request
Served(t) == lastServed' = t

\* list_containers, after docker.list_containers(..).await
ListContainersDone(t) ==
    /\ Awaiting(t, "list_containers", "list")
    /\ Served(t)
    /\ IF daemon.up
       THEN /\ Return(t, Ok(FilterMap(Fetched)))
            /\ lists' = <<lists[2], [snap |-> daemon.containers,
                                     res |-> FilterMap(Fetched),
                                     n |-> lists[2].n + 1]>>
       ELSE /\ Return(t, Err("Failed to list containers", "connection refused"))
            /\ lists' = lists
    /\ UNCHANGED <<docker, daemon, cmd, nreq, seen, acted, calls, env, menu>>

\* start_container / stop_container / restart_container, after the request
LifecycleDone(t) ==
    /\ pc[t] = "await"
    /\ req[t].kind \in {"start", "stop", "restart"}
    /\ Served(t)
    /\ IF DaemonError(req[t].id) = ""
       THEN /\ daemon' = [daemon EXCEPT !.containers =
                  SetState(@, req[t].id, StateAfter(req[t].kind))]
            /\ acted' = acted \cup {<<req[t].kind, req[t].id>>}
            /\ Return(t, Ok(<<>>))
       ELSE /\ Return(t, Err(LifecycleMessage(req[t].kind), DaemonError(req[t].id)))
            /\ UNCHANGED <<daemon, acted>>
    /\ UNCHANGED <<docker, cmd, nreq, seen, lists, calls, env, menu>>

\* a panic unwinds the task: its guards are dropped and the command returns
\* nothing to its caller
Panic(t) ==
    /\ pc' = [pc EXCEPT ![t] = "panicked"]
    /\ ret' = ret
    /\ req' = [req EXCEPT ![t] = NoReq]
    /\ loc' = [loc EXCEPT ![t] = NoLoc]
    /\ stateLock' = Drop(stateLock, t)
    /\ clientLock' = Drop(clientLock, t)

\* mutant: the stream is read to its end and the last sample is kept
StreamNext_Last(stream) == stream[Len(stream)]

\* stream.next().await on a stream that has an item: its first item
StreamNext(stream) == Head(stream)

\* get_container_stats, after stream.next().await: a daemon error, the end
\* of the stream, or a sample, from which calculate_stats derives the result;
\* where a sum of calculate_stats passes u64::MAX, the build decides whether
\* the task panics or the sum wraps
StatsDone(t) ==
    /\ Awaiting(t, "get_container_stats", "stats")
    /\ Served(t)
    /\ IF DaemonError(req[t].id) # ""
       THEN /\ Return(t, Err("Failed to get stats", DaemonError(req[t].id)))
            /\ acted' = acted
       ELSE IF daemon.stats[req[t].id] = <<>>
       THEN /\ Return(t, Err("No stats available", ""))
            /\ acted' = acted
       ELSE LET stats == StreamNext(daemon.stats[req[t].id]) IN
            /\ acted' = acted \cup {<<"stats", req[t].id>>}
            /\ IF NetworkTotals(stats).overflowed
               THEN \E checked \in BOOLEAN :
                       IF checked THEN Panic(t)
                       ELSE Return(t, Ok(calculate_stats(stats)))
               ELSE Return(t, Ok(calculate_stats(stats)))
    /\ UNCHANGED <<docker, daemon, cmd, nreq, seen, lists, calls, env, menu>>

\* get_container_logs, after one stream.next().await: a daemon error returns
\* at once, a frame is pushed to `logs`, the end of the stream returns `logs`
LogsNext(t) ==
    /\ Awaiting(t, "get_container_logs", "logs")
    /\ Served(t)
    /\ IF DaemonError(req[t].id) # ""
       THEN /\ Return(t, Err("Failed to get logs", DaemonError(req[t].id)))
            /\ acted' = acted
       ELSE LET frames == LogFrames(daemon.logs[req[t].id], Unwrap(req[t].options))
                k == loc[t].idx + 1
            IN  IF k <= Len(frames)
                THEN /\ loc' = [loc EXCEPT ![t] =
                           [@ EXCEPT !.idx = k,
                                     !.logs = Append(@, LogLine(frames[k]))]]
                     /\ acted' = acted \cup {<<"logs", req[t].id>>}
                     /\ UNCHANGED <<pc, ret, req, stateLock, clientLock>>
                ELSE /\ Return(t, Ok(loc[t].logs))
                     /\ acted' = acted \cup {<<"logs", req[t].id>>}
    /\ UNCHANGED <<docker, daemon, cmd, nreq, seen, lists, calls, env, menu>>

\* get_docker_info, after docker.info().await (the DockerInfo fields are not
\* part of this state machine)
InfoDone(t) ==
    /\ Awaiting(t, "get_docker_info", "info")
    /\ Served(t)
    /\ IF daemon.up
       THEN Return(t, Ok(<<>>))
       ELSE Return(t, Err("Failed to get Docker info", "connection refused"))
    /\ UNCHANGED <<docker, daemon, cmd, nreq, seen, acted, lists, calls, env, menu>>

\* ------------------------------------------ DockerClient::get_network_topology
\* the next container of the list, after position `from`, that the loop does
\* not `continue` past; 0 when the loop ends
NextManaged(list, from) ==
    LET later == {i \in (from + 1)..Len(list) : IsManaged(TopologyName(list[i]))}
    IN  IF later = {} THEN 0 ELSE CHOOSE i \in later : \A j \in later : i <= j

\* what inspect_container(id) reports: the container's state now, its image
\* and its networks
InspectResponse(id) ==
    LET report == IF id \in DOMAIN daemon.inspect THEN daemon.inspect[id]
                  ELSE InspectData(None, None)
    IN  [state |-> IF report.state.reported
                   THEN Some([health |-> report.state.health,
                              running |-> IF report.state.running
                                          THEN Some(IsRunning(Lookup(id)))
                                          ELSE None])
                   ELSE None,
         image |-> report.image,
         networks |-> report.networks,
         ports |-> report.ports]

\* the NetworkContainer pushed for summary c after its inspect: the role from
\* the lowercased image, the networks and the ports in the orders `networks`
\* and `port_keys` the two maps are iterated in
NetworkContainer(c, inspected, networks, port_keys) ==
    [id |-> c.id, name |-> TopologyName(c),
     container_type |-> container_type(to_lowercase(unwrap_or(inspected.image, ""))),
     networks |-> networks,
     ip |-> ip(inspected.networks, networks),
     ports |-> ports(inspected.ports, port_keys),
     health |-> health(inspected.state),
     cpu |-> cpu(c.id),
     mem |-> mem(c.id)]

NetworkTopology(containers, connections) ==
    [containers |-> containers, connections |-> connections]

\* the entries of network_map as a set
Entries(network_map) == {network_map[i] : i \in 1..Len(network_map)}

\* the loop over containers_list from position `from` on, up to its next
\* inspect_container(..).await or, past the loop, to the end of the method:
\* infer_connections iterates network_map in one of its orders
TopologyLoop(t, list, from, nodes, network_map) ==
    LET k == NextManaged(list, from) IN
    IF k = 0
    THEN /\ \E entries \in Orders(Entries(network_map)) :
               Return(t, Ok(NetworkTopology(nodes,
                                            infer_connections(nodes, entries))))
         /\ nreq' = nreq
    ELSE /\ Send(t, "inspect", list[k].id)
         /\ loc' = [loc EXCEPT ![t] = [list |-> list, idx |-> k, nodes |-> nodes,
                                      network_map |-> network_map,
                                      logs |-> <<>>]]
         /\ UNCHANGED <<ret, stateLock, clientLock>>

\* get_network_topology, after docker.list_containers(..).await
TopologyListed(t) ==
    /\ Awaiting(t, "get_network_topology", "list")
    /\ Served(t)
    /\ IF daemon.up
       THEN TopologyLoop(t, Fetched, 0, <<>>, <<>>)
       ELSE /\ Return(t, Err("Failed to list containers", "connection refused"))
            /\ nreq' = nreq
    /\ UNCHANGED <<docker, daemon, cmd, seen, acted, lists, calls, env, menu>>

\* mutant: the container whose inspect failed is skipped
InspectFailed_Skips(t, e) ==
    TopologyLoop(t, loc[t].list, loc[t].idx, loc[t].nodes, loc[t].network_map)

\* mutant: the inspect that failed is sent again
InspectFailed_Retries(t, e) ==
    /\ Send(t, "inspect", req[t].id)
    /\ UNCHANGED <<loc, ret, stateLock, clientLock>>

\* inspect_container(..).await failed with e: the `?` returns the error
InspectFailed(t, e) ==
    /\ Return(t, Err("Failed to inspect container", e))
    /\ nreq' = nreq

\* get_network_topology, after one docker.inspect_container(..).await
TopologyInspected(t) ==
    /\ Awaiting(t, "get_network_topology", "inspect")
    /\ Served(t)
    /\ IF DaemonError(req[t].id) = ""
       THEN /\ acted' = acted \cup {<<"inspect", req[t].id>>}
            /\ LET inspect == InspectResponse(req[t].id) IN
               \E networks \in Orders(DOMAIN unwrap_or(inspect.networks, <<>>)),
                  port_keys \in Orders(unwrap_or(inspect.ports, {})) :
                  TopologyLoop(t, loc[t].list, loc[t].idx,
                      Append(loc[t].nodes,
                             NetworkContainer(loc[t].list[loc[t].idx], inspect,
                                              networks, port_keys)),
                      PushAll(loc[t].network_map, networks, req[t].id))
       ELSE /\ acted' = acted
            /\ InspectFailed(t, DaemonError(req[t].id))
    /\ UNCHANGED <<docker, daemon, cmd, seen, lists, calls, env, menu>>

\* ---------------------------------------------------------------- the daemon
\* another client of the daemon removes a container
DaemonRemoves(i) ==
    /\ env < MaxEnv
    /\ i \in 1..Len(daemon.containers)
    /\ daemon' = [daemon EXCEPT !.containers = Remove(@, i)]
    /\ env' = env + 1
    /\ UNCHANGED <<docker, stateLock, clientLock, pc, cmd, req, loc, ret, nreq,
                   seen, acted, lastServed, lists, calls, menu>>

\* another client of the daemon creates a container
DaemonCreates(c) ==
    /\ env < MaxEnv
    /\ c.id \notin IdsOf(daemon.containers)
    /\ daemon' = [daemon EXCEPT !.containers = Append(@, c)]
    /\ env' = env + 1
    /\ UNCHANGED <<docker, stateLock, clientLock, pc, cmd, req, loc, ret, nreq,
                   seen, acted, lastServed, lists, calls, menu>>

\* the daemon stops or starts answering
DaemonFlips ==
    /\ env < MaxEnv
    /\ daemon' = [daemon EXCEPT !.up = ~@]
    /\ env' = env + 1
    /\ UNCHANGED <<docker, stateLock, clientLock, pc, cmd, req, loc, ret, nreq,
                   seen, acted, lastServed, lists, calls, menu>>

\* ------------------------------------------------------------ specification
Next ==
    \/ \E t \in Tasks, c \in Commands : Invoke(t, c)
    \/ \E t \in Tasks : check_docker_connection(t)
    \/ \E t \in Tasks : connect_docker(t)
    \/ \E t \in Tasks : LockState(t)
    \/ \E t \in Tasks : LockClient(t)
    \/ \E t \in Tasks : ListContainersDone(t)
    \/ \E t \in Tasks : LifecycleDone(t)
    \/ \E t \in Tasks : StatsDone(t)
    \/ \E t \in Tasks : InfoDone(t)
    \/ \E t \in Tasks : TopologyListed(t)
    \/ \E t \in Tasks : TopologyInspected(t)
    \/ \E i \in 1..Cardinality(Catalog) : DaemonRemoves(i)
    \/ \E c \in Creatable : DaemonCreates(c)
    \/ DaemonFlips

Spec == Init /\ [][Next]_vars

\* ------------------------------------------- list_containers on any daemon list
\* every name shape the daemon may report: no names, an empty name vector, no
\* leading slash, several leading slashes, the prefix inside or cut short
NameShapes == {CNginx, CPhp, CForeign, CNoName, CEmptyNames, CBare, CSlashes,
               CInfix, CShort, CUnknown}

ListCommand == [op |-> "list_containers", id |-> "", tail |-> None]

InitList ==
    /\ docker = 1
    /\ stateLock = NoTask
    /\ clientLock = NoTask
    /\ daemon \in {Daemon(l, TRUE, r) :
                      l \in UNION {SeqsOver(NameShapes, n) : n \in 0..MaxListLen},
                      r \in PlainReports}
    /\ pc = [t \in Tasks |-> "idle"]
    /\ cmd = [t \in Tasks |-> NoCmd]
    /\ req = [t \in Tasks |-> NoReq]
    /\ loc = [t \in Tasks |-> NoLoc]
    /\ ret = [t \in Tasks |-> Pending]
    /\ nreq = [t \in Tasks |-> 0]
    /\ seen = [t \in Tasks |-> NoHandle]
    /\ acted = {}
    /\ lastServed = NoTask
    /\ lists = <<NoList, NoList>>
    /\ calls = 0
    /\ env = 0
    /\ menu = {ListCommand}

NextList ==
    \/ \E t \in Tasks : Invoke(t, ListCommand)
    \/ \E t \in Tasks : LockState(t)
    \/ \E t \in Tasks : LockClient(t)
    \/ \E t \in Tasks : ListContainersDone(t)

SpecList == InitList /\ [][NextList]_vars

\* everything but the handle, the daemon and the workload, as Init has it
Quiet ==
    /\ stateLock = NoTask
    /\ clientLock = NoTask
    /\ pc = [t \in Tasks |-> "idle"]
    /\ cmd = [t \in Tasks |-> NoCmd]
    /\ req = [t \in Tasks |-> NoReq]
    /\ loc = [t \in Tasks |-> NoLoc]
    /\ ret = [t \in Tasks |-> Pending]
    /\ nreq = [t \in Tasks |-> 0]
    /\ seen = [t \in Tasks |-> NoHandle]
    /\ acted = {}
    /\ lastServed = NoTask
    /\ lists = <<NoList, NoList>>
    /\ calls = 0
    /\ env = 0

\* ----------------------------------- get_container_stats on any stats stream
\* the counters of a sample: forwards, backwards and standing still, the
\* system counters and the CPU count reported or not
CpuSamples ==
    {Stats(CPUStats(c, s, o), CPUStats(pc0, ps, None),
           MemoryStats(Some(3), Some(4)), None) :
        c \in {2, 5}, pc0 \in {2, 5},
        s \in {None, Some(3), Some(7)}, ps \in {None, Some(3), Some(7)},
        o \in {None, Some(0), Some(2)}}

\* usage 512000000 of limit 1024000000
HalfUsed ==
    Stats(CPUStats(5, Some(7), Some(2)), CPUStats(2, Some(3), None),
          MemoryStats(Some(512000000), Some(1024000000)), None)

MemorySamples ==
    {Stats(CPUStats(5, Some(7), Some(2)), CPUStats(2, Some(3), None),
           MemoryStats(u, l), None) :
        u \in {None, Some(0), Some(3), Some(8)}, l \in {None, Some(0), Some(4)}}
    \cup {HalfUsed}

\* interfaces whose counters are small, and at the top of the u64 range
Interfaces ==
    {NetworkStats(3, 4), NetworkStats(U64_MAX, 1), NetworkStats(1, U64_MAX - 1)}

NetworkSamples ==
    {Stats(CPUStats(5, Some(7), Some(2)), CPUStats(2, Some(3), None),
           MemoryStats(Some(3), Some(4)), n) :
        n \in {None} \cup {Some(q) : q \in UNION {SeqsOver(Interfaces, k) :
                                                   k \in 0..MaxIfaces}}}

\* what the daemon's stats stream may hold: nothing, one sample, or (a daemon
\* that ignores one_shot) two
StatsStreams ==
    {<<>>}
    \cup {<<x>> : x \in CpuSamples \cup MemorySamples \cup NetworkSamples}
    \cup {<<x, y>> : x, y \in {PlainStats, HalfUsed}}

StatsCommand == [op |-> "get_container_stats", id |-> CNginx.id, tail |-> None]

InitStats ==
    /\ docker = 1
    /\ daemon \in {Daemon(l, up,
                          [stats |-> [i \in Ids |-> IF i = CNginx.id THEN x ELSE <<>>],
                           logs |-> [i \in Ids |-> PlainLog],
                           inspect |-> PlainInspect]) :
                      l \in {<<CNginx>>, <<>>}, up \in BOOLEAN, x \in StatsStreams}
    /\ menu = {StatsCommand}
    /\ Quiet

NextStats ==
    \/ \E t \in Tasks : Invoke(t, StatsCommand)
    \/ \E t \in Tasks : LockState(t)
    \/ \E t \in Tasks : LockClient(t)
    \/ \E t \in Tasks : StatsDone(t)

SpecStats == InitStats /\ [][NextStats]_vars

\* the scheduling get_container_stats runs under: the runtime polls every task
\* that can go on, tokio's mutex hands the lock to its waiters in turn, and
\* every daemon round trip comes back
FairStats ==
    \A t \in Tasks :
        /\ SF_vars(LockState(t))
        /\ WF_vars(LockClient(t))
        /\ WF_vars(StatsDone(t))

\* the streams of one sample that has network counters or none, and the
\* empty stream
InitLiveStats ==
    /\ InitStats
    /\ daemon.stats[CNginx.id] \in {<<>>} \cup {<<x>> : x \in NetworkSamples}

LiveStats == InitLiveStats /\ [][NextStats]_vars /\ FairStats

\* ------------------------------- get_network_topology on any inspect reports
\* the managed containers the daemon may report, behind a foreign one
ManagedStack == <<CNginx, CPhp, CBare, CSlashes>>

TopologyLists ==
    {<<CForeign>> \o SubSeq(ManagedStack, 1, n) :
        n \in 0..(IF MaxNodes < Len(ManagedStack) THEN MaxNodes
                  ELSE Len(ManagedStack))}

\* what inspect may report for a container: every role, on one network, on
\* two, on none, and with the image or the networks missing
InspectShapes ==
    {InspectData(Some("nginx:latest"), Some({"net1"})),
     InspectData(Some("NGINX:1.27"), Some({"net1", "net2"})),
     InspectData(Some("php:8.4-fpm"), Some({"net1"})),
     InspectData(Some("php:8.4-fpm"), Some({"net1", "net2"})),
     InspectData(Some("php:8.4-fpm"), None),
     InspectData(Some("postgres:16"), Some({"net1", "net2"})),
     InspectData(Some("mysql:8"), Some({"net2"})),
     InspectData(Some("redis:7"), Some({"net1"})),
     InspectData(Some("alpine:3"), Some({"net1"})),
     InspectData(None, Some({}))}

TopologyCommand == [op |-> "get_network_topology", id |-> "", tail |-> None]

InitTopology ==
    /\ docker = 1
    /\ daemon \in UNION {{Daemon(l, TRUE,
                                  [stats |-> [i \in Ids |-> <<>>],
                                   logs |-> [i \in Ids |-> PlainLog],
                                   inspect |-> f]) :
                              f \in [IdsOf(l) \ {CForeign.id} -> InspectShapes]} :
                          l \in TopologyLists}
    /\ menu = {TopologyCommand}
    /\ Quiet

NextTopology ==
    \/ Invoke(1, TopologyCommand)
    \/ LockState(1)
    \/ LockClient(1)
    \/ TopologyListed(1)
    \/ TopologyInspected(1)

SpecTopology == InitTopology /\ [][NextTopology]_vars

\* ---------------------------------------- get_container_logs on any log
\* the entries a container's log may hold, of both streams
LogEntries ==
    {LogEntry("stdout", "t1", "ready"), LogEntry("stderr", "t2", "warn"),
     LogEntry("stdout", "t3", "")}

\* the tail values a caller may give: none, and numbers of one to three digits
LogTails == {None, Some(0), Some(1), Some(2), Some(12), Some(100)}

LogsCommands ==
    {[op |-> "get_container_logs", id |-> CNginx.id, tail |-> n] : n \in LogTails}

InitLogs ==
    /\ docker = 1
    /\ daemon \in {Daemon(<<CNginx>>, TRUE,
                          [stats |-> [i \in Ids |-> <<>>],
                           logs |-> [i \in Ids |-> l],
                           inspect |-> PlainInspect]) :
                      l \in UNION {SeqsOver(LogEntries, n) : n \in 0..MaxLogLines}}
    /\ menu \in {{c} : c \in LogsCommands}
    /\ Quiet

NextLogs ==
    \/ \E t \in Tasks, c \in LogsCommands : Call(t, c)
    \/ \E t \in Tasks : LockState(t)
    \/ \E t \in Tasks : LockClient(t)
    \/ \E t \in Tasks : LogsNext(t)
    \/ DaemonRemoves(1)
    \/ DaemonFlips

SpecLogs == InitLogs /\ [][NextLogs]_vars

\* ------------------------------ get_network_topology on any inspect report
\* the images a container may run: every pattern of the classification, in
\* either case, alone and together, none of them, an empty and a missing image
Images ==
    {Some("nginx:latest"), Some("NGINX:1.27"), Some("php:8.4-fpm"),
     Some("webdevops/php-nginx:8.4"), Some("mysql:8"), Some("postgres:16"),
     Some("mariadb:11"), Some("bitnami/redis-mysql:1"), Some("redis:7"),
     Some("memcached:1.6"), Some("alpine:3"), Some(""), None}

\* the states inspect may report: none, or one with or without a health-check
\* entry of any status or of none, with or without the running flag
StateReports ==
    {StateReport(FALSE, None, FALSE)}
    \cup {StateReport(TRUE, h, r) :
             h \in {None} \cup {Some(Health(st)) :
                                   st \in {None} \cup {Some(e) : e \in HealthStatusEnum}},
             r \in BOOLEAN}

\* the networks maps inspect may report: none, an empty one, one network, two
\* networks, with an address on each or with one address missing
NetworkMaps ==
    {None, Some(Endpoints({})), Some(Endpoints({"net1"})),
     Some(Endpoints({"net1", "net2"})),
     Some([n \in {"net1", "net2"} |->
              EndpointSettings(IF n = "net1" THEN None ELSE Some(AddressOn(n)))])}

\* the keys of the ports maps inspect may report
PortMaps ==
    {None, Some({}), Some({"80/tcp"}), Some({"80/tcp", "443/tcp"}),
     Some({"53/tcp", "53/udp"})}

\* the reports of one container: each part varied with the others plain
InspectReports ==
    {InspectReport(i, Some(Endpoints({"net1"})), None, PlainState) : i \in Images}
    \cup {InspectReport(Some("php:8.4-fpm"), Some(Endpoints({"net1"})), None, st) :
             st \in StateReports}
    \cup {InspectReport(Some("php:8.4-fpm"), n, q, PlainState) :
             n \in NetworkMaps, q \in PortMaps}

\* a running and a stopped managed container, alone; and the two together, in
\* either order, each of any image
InitInspect ==
    /\ docker = 1
    /\ daemon \in
          {Daemon(<<c>>, TRUE, [stats |-> [i \in Ids |-> <<>>],
                                logs |-> [i \in Ids |-> PlainLog],
                                inspect |-> [i \in {c.id} |-> r]]) :
              c \in {CNginx, CPhp}, r \in InspectReports}
          \cup {Daemon(l, TRUE, [stats |-> [i \in Ids |-> <<>>],
                                  logs |-> [i \in Ids |-> PlainLog],
                                  inspect |-> [i \in {CNginx.id, CPhp.id} |->
                                      InspectData(IF i = CNginx.id THEN x ELSE y,
                                                  Some({"net1"}))]]) :
                   l \in {<<CNginx, CPhp>>, <<CPhp, CNginx>>},
                   x \in Images, y \in Images}
    /\ menu = {TopologyCommand}
    /\ Quiet

NextInspect ==
    \/ \E t \in Tasks : Invoke(t, TopologyCommand)
    \/ \E t \in Tasks : LockState(t)
    \/ \E t \in Tasks : LockClient(t)
    \/ \E t \in Tasks : TopologyListed(t)
    \/ \E t \in Tasks : TopologyInspected(t)

SpecInspect == InitInspect /\ [][NextInspect]_vars

\* --------------------- list_containers and get_network_topology side by side
\* a container the daemon reports without a name, under an id that starts
\* with the prefix (the id is an Option<String> the daemon fills in)
CPrefixedId == Summary("signalforge-0", None, "running")

\* the daemon's lists: every name shape, and the nameless container
SelectionLists ==
    UNION {SeqsOver(NameShapes \cup {CPrefixedId}, n) : n \in 0..MaxListLen}

InitSelection ==
    /\ docker = 1
    /\ daemon \in {Daemon(l, TRUE, r) : l \in SelectionLists, r \in PlainReports}
    /\ menu = {ListCommand, TopologyCommand}
    /\ Quiet

\* one task lists the containers, the other maps them; the daemon stays as
\* it is
NextSelection ==
    \/ Invoke(1, ListCommand)
    \/ Invoke(2, TopologyCommand)
    \/ \E t \in Tasks : LockState(t)
    \/ \E t \in Tasks : LockClient(t)
    \/ ListContainersDone(1)
    \/ TopologyListed(2)
    \/ TopologyInspected(2)

SpecSelection == InitSelection /\ [][NextSelection]_vars

\* =================================================================== claims
ByHandle == (Plain \cup ById) \ {"check_docker_connection", "connect_docker"}

\* a command that has sent a daemon request and has not returned yet
Started(t) == nreq[t] > 0 /\ pc[t] # "done"

\* task t's daemon request is answered in this step
Answered(t) == pc[t] = "await" /\ (pc'[t] # "await" \/ req'[t] # req[t])

\* C1: daemon requests are serialized: at every moment at most one command has
\* a daemon request in flight, and no command sends its first daemon request
\* while another command that has already sent one has not returned.
C1_Serialized ==
    /\ Cardinality({t \in Tasks : pc[t] = "await"}) <= 1
    /\ Cardinality({t \in Tasks : Started(t)}) <= 1

\* list_containers has its request in flight while a concurrently invoked
\* stop_container waits for the lock
C1_Witness ==
    \E t, u \in Tasks :
        /\ cmd[t].op = "list_containers" /\ pc[t] = "await"
        /\ cmd[u].op = "stop_container" /\ pc[u] = "outer"

\* C2, as claimed: the gate is released as soon as each single daemon request
\* completes, so it is not held from one request of a workflow to the next.
C2_ReleasedAfterEachRequest ==
    [][\A t \in Tasks : Answered(t) => clientLock' # t]_vars

\* C2, amended: the gate is taken once, before the command's first daemon
\* request, and held together with the AppState lock until the command
\* returns; while get_network_topology is between two of its requests the
\* daemon answers no request of any other command.
C2_GateHeldAcrossWorkflow ==
    \A t \in Tasks :
        pc[t] = "await" =>
            /\ clientLock = t
            /\ stateLock = t
            /\ nreq[t] > 1 => lastServed = t

\* get_network_topology awaits its second inspect while another caller's
\* stop_container waits for the lock
C2_Witness ==
    \E t, u \in Tasks :
        /\ cmd[t].op = "get_network_topology" /\ pc[t] = "await"
        /\ req[t].kind = "inspect" /\ nreq[t] = 3
        /\ cmd[u].op = "stop_container" /\ pc[u] = "outer"

C4_ConnectReplaces ==
    [][/\ \A t \in Tasks :
            (pc[t] = "outer" /\ cmd[t].op = "connect_docker" /\ pc'[t] = "done")
            => /\ daemon.up => ret'[t] = Ok(<<TRUE>>)
               /\ ret'[t].tag = "Ok" => docker' > docker
               /\ ret'[t].tag = "Err" => docker' = docker
       /\ \A t \in Tasks : pc'[t] = "await" => req'[t].via = docker'
       /\ docker # NoHandle => docker' # NoHandle
       /\ \A t \in Tasks :
            (/\ pc[t] = "outer" /\ cmd[t].op = "check_docker_connection"
             /\ pc'[t] = "done" /\ docker # NoHandle)
            => ret'[t] = Ok(<<TRUE>>)]_vars

\* a connect made while a handle existed replaced it, and a later request
\* goes through the new handle
C4_Witness ==
    \E t, u \in Tasks :
        /\ pc[t] = "done" /\ cmd[t].op = "connect_docker"
        /\ seen[t] = 1 /\ ret[t] = Ok(<<TRUE>>) /\ docker = 2
        /\ pc[u] = "await" /\ req[u].via = 2

\* C5: check_docker_connection returns true exactly when a handle exists,
\* never an error, and sends no daemon request, whether or not the daemon
\* answers.
C5_PresenceCheck ==
    \A t \in Tasks :
        (pc[t] = "done" /\ cmd[t].op = "check_docker_connection")
        => /\ ret[t] = Ok(<<seen[t] # NoHandle>>)
           /\ nreq[t] = 0

\* the check returned true while the daemon does not answer
C5_Witness ==
    \E t \in Tasks :
        /\ pc[t] = "done" /\ cmd[t].op = "check_docker_connection"
        /\ ret[t] = Ok(<<TRUE>>)
        /\ ~daemon.up /\ docker # NoHandle

\* the name a claim speaks of: the first name the daemon reports for the
\* container, without its leading slashes; no name at all is <<>>
LeadingSlashes(s) ==
    CHOOSE n \in 0..Len(s) :
        /\ \A k \in 1..n : SubSeq(s, k, k) = "/"
        /\ n < Len(s) => SubSeq(s, n + 1, n + 1) # "/"

StrippedName(c) ==
    IF c.names = <<>> \/ c.names = <<<<>>>> THEN <<>>
    ELSE <<SubSeq(c.names[1][1], LeadingSlashes(c.names[1][1]) + 1,
                  Len(c.names[1][1]))>>

HasPrefix(c) ==
    /\ StrippedName(c) # <<>>
    /\ Len(StrippedName(c)[1]) >= 12
    /\ SubSeq(StrippedName(c)[1], 1, 12) = "signalforge-"

\* the positions of the prefixed containers in a daemon list, and the k-th
ManagedAt(snap) == {i \in 1..Len(snap) : HasPrefix(snap[i])}

Kth(S, k) == CHOOSE i \in S : Cardinality({j \in S : j <= i}) = k

LastList == lists[2]
PrevList == lists[1]


\* the tasks whose list_containers returned the list the history holds last
Listed == {t \in Tasks : /\ pc[t] = "done" /\ cmd[t].op = "list_containers"
                         /\ ret[t].tag = "Ok" /\ lastServed = t}

\* C6: every record list_containers returns has a name starting with
\* "signalforge-"; a container whose stripped first name lacks the prefix, or
\* that has no name, is never returned; when the daemon reports only such
\* containers the result is empty.
C6_OnlyPrefixed ==
    \A t \in Listed :
        LET res == ret[t].val
            snap == LastList.snap
            foreign == {snap[i].id : i \in (1..Len(snap)) \ ManagedAt(snap)}
        IN  /\ \A k \in 1..Len(res) :
                  /\ Len(res[k].name) >= 12
                  /\ SubSeq(res[k].name, 1, 12) = "signalforge-"
                  /\ res[k].id \notin foreign
            /\ Cardinality(foreign) = Len(snap) => res = <<>>

\* a list of a nameless container, one with the prefix inside its name and a
\* managed one returned the managed one alone
C6_Witness ==
    \E t \in Listed :
        /\ LastList.snap = <<CNoName, CInfix, CSlashes>>
        /\ Len(ret[t].val) = 1
        /\ ret[t].val[1].name = "signalforge-redis"

\* C7: list_containers returns exactly the prefixed containers of the daemon's
\* full list, running or not, each once, in the daemon's order.
C7_ExactSubsequence ==
    \A t \in Listed :
        LET res == ret[t].val
            snap == LastList.snap
            managed == ManagedAt(snap)
        IN  /\ Len(res) = Cardinality(managed)
            /\ \A k \in 1..Len(res) :
                  LET c == snap[Kth(managed, k)] IN
                  /\ res[k].id = c.id
                  /\ res[k].state = c.state
                  /\ <<res[k].name>> = StrippedName(c)

\* a stopped managed container listed before a running one, around a foreign
\* one: both are returned, in that order
C7_Witness ==
    \E t \in Listed :
        /\ LastList.snap = <<CPhp, CForeign, CBare>>
        /\ Len(ret[t].val) = 2
        /\ ret[t].val[1].id = CPhp.id /\ ret[t].val[1].state = "exited"
        /\ ret[t].val[2].id = CBare.id /\ ret[t].val[2].state = "running"

\* what a list of the daemon state `snap` must show: every prefixed container
\* of snap, with the state snap gives it, and nothing else
Reflects(res, snap) ==
    LET managed == ManagedAt(snap) IN
    /\ {res[k].id : k \in 1..Len(res)} = {snap[i].id : i \in managed}
    /\ \A k \in 1..Len(res) : \A i \in managed :
          snap[i].id = res[k].id => snap[i].state = res[k].state

\* C8: a list_containers result depends only on the daemon's containers at the
\* time of the call: two calls that find the same daemon state return the same
\* sequence, and a call after a daemon-side change shows the changed state,
\* never an earlier call's record.
C8_NoCaching ==
    /\ \A t \in Listed : ret[t].val = LastList.res
    /\ LastList.n > 0 => Reflects(LastList.res, LastList.snap)
    /\ (PrevList.n > 0 /\ PrevList.snap = LastList.snap)
           => PrevList.res = LastList.res

\* two list calls around a daemon-side change: the container created in
\* between is missing from the first result and present in the second
C8_Witness ==
    /\ PrevList.n > 0
    /\ PrevList.snap # LastList.snap
    /\ \A k \in 1..Len(PrevList.res) : PrevList.res[k].id # CBare.id
    /\ \E k \in 1..Len(LastList.res) : LastList.res[k].id = CBare.id
    /\ \E t \in Listed : ret[t].val = LastList.res

\* the ids of the containers whose name lacks the managed prefix
ForeignIds == {c.id : c \in {d \in Creatable \cup NameShapes : ~HasPrefix(d)}}

\* C9, as claimed: containers without the managed prefix are invisible to all
\* operations: no list or topology includes one, and no start, stop, restart,
\* stats, logs or inspect request is carried out on one.
C9_ForeignInvisible ==
    /\ \A a \in acted : a[2] \notin ForeignIds
    /\ \A k \in 1..Len(LastList.res) : LastList.res[k].id \notin ForeignIds
    /\ \A t \in Tasks :
          (pc[t] = "done" /\ cmd[t].op = "get_network_topology" /\ ret[t].tag = "Ok")
          => \A k \in 1..Len(ret[t].val.containers) :
                 ret[t].val.containers[k].id \notin ForeignIds

\* C10: when the inspect of a managed container fails during
\* get_network_topology, the command returns the inspect error at once, with
\* no nodes, and sends no further request.
C10_AbortsOnInspectFailure ==
    [][\A t \in Tasks :
          (/\ Answered(t)
           /\ cmd[t].op = "get_network_topology" /\ req[t].kind = "inspect"
           /\ (~daemon.up \/ req[t].id \notin IdsOf(daemon.containers)))
          => /\ pc'[t] = "done"
             /\ ret'[t].tag = "Err"
             /\ ret'[t].msg = "Failed to inspect container"
             /\ ret'[t].val = <<>>
             /\ nreq'[t] = nreq[t]
             /\ req'[t] = NoReq]_vars

\* the first managed container disappeared between the list and its inspect:
\* the command failed after two requests although another managed container
\* was still there to inspect
C10_Witness ==
    \E t \in Tasks :
        /\ pc[t] = "done" /\ cmd[t].op = "get_network_topology"
        /\ ret[t].msg = "Failed to inspect container"
        /\ nreq[t] = 2
        /\ daemon.up
        /\ daemon.containers = <<CForeign, CPhp>>

\* the daemon cannot carry out the request task t has in flight
Failing(t) ==
    /\ pc[t] = "await"
    /\ \/ ~daemon.up
       \/ /\ req[t].kind \notin {"list", "info"}
          /\ \A i \in 1..Len(daemon.containers) : daemon.containers[i].id # req[t].id

\* the cause the daemon gives for it
Cause == IF daemon.up THEN "no such container" ELSE "connection refused"

\* the words each operation puts in front of the daemon's cause
OperationPrefix(kind) ==
    CASE kind = "list" -> "Failed to list containers"
      [] kind = "start" -> "Failed to start container"
      [] kind = "stop" -> "Failed to stop container"
      [] kind = "restart" -> "Failed to restart container"
      [] kind = "stats" -> "Failed to get stats"
      [] kind = "logs" -> "Failed to get logs"
      [] kind = "info" -> "Failed to get Docker info"
      [] kind = "inspect" -> "Failed to inspect container"

\* the list a get_network_topology in flight has fetched or is fetching
ListFetched(t) ==
    IF req[t].kind = "list" THEN daemon.containers ELSE loc[t].list

\* C11: no operation retries: a command sends each daemon request at most
\* once (its first request, and for get_network_topology one inspect per
\* container of the list, never of a container at a position already passed);
\* when a request fails the command ends at once with an error made of the
\* operation's prefix and the daemon's cause, and sends nothing more; and
\* list_containers, get_docker_info and get_network_topology return an error
\* without a value or a result for every managed container of the list.
C11_NoRetry ==
    [][\A t \in Tasks :
          /\ (Answered(t) /\ Failing(t))
             => /\ pc'[t] = "done"
                /\ ret'[t].tag = "Err"
                /\ ret'[t].msg = OperationPrefix(req[t].kind)
                /\ ret'[t].cause = Cause
                /\ ret'[t].val = <<>>
                /\ nreq'[t] = nreq[t]
                /\ req'[t] = NoReq
          /\ (nreq'[t] > nreq[t])
             => /\ nreq'[t] = nreq[t] + 1
                /\ pc'[t] = "await"
                /\ \/ nreq[t] = 0
                   \/ /\ cmd[t].op = "get_network_topology"
                      /\ req'[t].kind = "inspect"
                      /\ ~Failing(t)
                      /\ \A i \in 1..loc[t].idx :
                            ListFetched(t)[i].id # req'[t].id
          /\ (/\ pc[t] = "await" /\ pc'[t] = "done"
              /\ cmd[t].op \in {"list_containers", "get_docker_info",
                               "get_network_topology"})
             => \/ ret'[t].tag = "Err" /\ ret'[t].val = <<>>
                \/ /\ ret'[t].tag = "Ok"
                   /\ cmd[t].op = "list_containers"
                         => Len(ret'[t].val) = Cardinality(ManagedAt(daemon.containers))
                   /\ cmd[t].op = "get_network_topology"
                         => Len(ret'[t].val.containers)
                                = Cardinality(ManagedAt(ListFetched(t)))]_vars

\* get_network_topology failed on its second inspect, after three requests,
\* while stop_container of another caller had failed after its single one
C11_Witness ==
    \E t, u \in Tasks :
        /\ pc[t] = "done" /\ cmd[t].op = "get_network_topology"
        /\ ret[t] = Err("Failed to inspect container", "connection refused")
        /\ nreq[t] = 3
        /\ pc[u] = "done" /\ cmd[u].op = "stop_container"
        /\ ret[u].tag = "Err" /\ ret[u].msg = "Failed to stop container"
        /\ nreq[u] = 1

Mapped == {t \in Tasks : /\ pc[t] = "done" /\ cmd[t].op = "get_network_topology"
                         /\ ret[t].tag = "Ok"}

\* node n of a topology lists network w
Attached(n, w) == \E j \in 1..Len(n.networks) : n.networks[j] = w

\* the nodes of a topology with a given id
NodesWithId(topo, id) ==
    {k \in 1..Len(topo.containers) : topo.containers[k].id = id}

\* C13: in every topology get_network_topology returns, each edge's `from`
\* and `to` are nodes of the topology whose networks lists contain the edge's
\* network; so no edge joins two nodes that share no network.
C13_EdgesWithinNetwork ==
    \A t \in Mapped :
        LET topo == ret[t].val IN
        \A e \in 1..Len(topo.connections) :
            LET edge == topo.connections[e] IN
            /\ NodesWithId(topo, edge.from) # {}
            /\ NodesWithId(topo, edge.to) # {}
            /\ \A k \in NodesWithId(topo, edge.from) \cup NodesWithId(topo, edge.to) :
                  Attached(topo.containers[k], edge.network)
            /\ \E w \in {"net1", "net2"} :
                  \A k \in NodesWithId(topo, edge.from) \cup NodesWithId(topo, edge.to) :
                     Attached(topo.containers[k], w)

\* a topology with an edge, a node on two networks and a node on none
C13_Witness ==
    \E t \in Mapped :
        /\ Len(ret[t].val.connections) > 0
        /\ \E k \in 1..Len(ret[t].val.containers) :
              Len(ret[t].val.containers[k].networks) = 2
        /\ \E k \in 1..Len(ret[t].val.containers) :
              /\ ret[t].val.containers[k].networks = <<>>
              /\ ret[t].val.containers[k].container_type = "app"

\* the nodes of a role that list network w
RoleOn(topo, role, w) ==
    {k \in 1..Len(topo.containers) :
        /\ topo.containers[k].container_type = role
        /\ Attached(topo.containers[k], w)}

\* the edges of a topology labelled with network w
EdgesOn(topo, w) ==
    {e \in 1..Len(topo.connections) : topo.connections[e].network = w}

\* the role pairs that get an edge
EdgeRoles == {<<"gateway", "app">>, <<"app", "database">>, <<"app", "cache">>}

\* C14: for every network w, the edges labelled w are G*A + A*D + A*C in
\* number, for the G gateway, A app, D database and C cache nodes on w, with
\* exactly one edge per pair of such nodes; the topology has no other edge,
\* so two nodes sharing k networks are joined by k edges.
C14_CrossProduct ==
    \A t \in Mapped :
        LET topo == ret[t].val IN
        /\ \A w \in {"net1", "net2"} :
              LET G == Cardinality(RoleOn(topo, "gateway", w))
                  A == Cardinality(RoleOn(topo, "app", w))
                  D == Cardinality(RoleOn(topo, "database", w))
                  C == Cardinality(RoleOn(topo, "cache", w))
              IN  /\ Cardinality(EdgesOn(topo, w)) = G * A + A * D + A * C
                  /\ \A r \in EdgeRoles :
                        \A x \in RoleOn(topo, r[1], w), y \in RoleOn(topo, r[2], w) :
                           Cardinality({e \in EdgesOn(topo, w) :
                               /\ topo.connections[e].from = topo.containers[x].id
                               /\ topo.connections[e].to = topo.containers[y].id}) = 1
        /\ Len(topo.connections)
              = Cardinality(EdgesOn(topo, "net1")) + Cardinality(EdgesOn(topo, "net2"))

\* two gateways and one app, all three on both networks: four edges, two on
\* each network, each gateway joined to the app twice
C14_Witness ==
    \E t \in Mapped :
        LET topo == ret[t].val IN
        /\ Len(topo.connections) = 4
        /\ Cardinality(RoleOn(topo, "gateway", "net1")) = 2
        /\ Cardinality(RoleOn(topo, "gateway", "net2")) = 2
        /\ Cardinality(RoleOn(topo, "app", "net1")) = 1
        /\ Cardinality(EdgesOn(topo, "net1")) = 2
        /\ Cardinality(EdgesOn(topo, "net2")) = 2

\* the tasks whose get_container_stats returned a ContainerStats
Sampled == {t \in Tasks : /\ pc[t] = "done" /\ cmd[t].op = "get_container_stats"
                          /\ ret[t].tag = "Ok"}

\* the sample such a task was given
SampleOf(t) == daemon.stats[cmd[t].id][1]

\* a counter the daemon may leave out, with the value that stands in for it
Reported(o, standin) == IF o = <<>> THEN standin ELSE o[1]

\* C15: for every sample, with cpuDelta and systemDelta the current minus the
\* previous total and system CPU usage (an unreported system usage counting
\* as 0): cpu_percent = (cpuDelta / systemDelta) * onlineCpus * 100 when both
\* deltas are positive, onlineCpus being 1 when unreported, and cpu_percent = 0
\* otherwise; it is never negative.
C15_CpuPercent ==
    \A t \in Sampled :
        LET x == SampleOf(t)
            cpuDelta == x.cpu_stats.cpu_usage.total_usage
                            - x.precpu_stats.cpu_usage.total_usage
            systemDelta == Reported(x.cpu_stats.system_cpu_usage, 0)
                               - Reported(x.precpu_stats.system_cpu_usage, 0)
            onlineCpus == Reported(x.cpu_stats.online_cpus, 1)
            p == ret[t].val.cpu_percent
        IN  /\ p.d > 0
            /\ p.n >= 0
            /\ IF cpuDelta > 0 /\ systemDelta > 0
               THEN p.n * systemDelta = cpuDelta * onlineCpus * 100 * p.d
               ELSE p.n = 0

\* total usage 2 -> 5, system usage 3 -> 7, no CPU count reported: 75 percent
C15_Witness ==
    \E t \in Sampled :
        /\ SampleOf(t).cpu_stats = CPUStats(5, Some(7), None)
        /\ SampleOf(t).precpu_stats = CPUStats(2, Some(3), None)
        /\ ret[t].val.cpu_percent = [n |-> 75, d |-> 1]

\* C16: for every sample, memory_percent = 100 * usage / limit when the limit
\* is positive and 0 when the limit is 0, never negative; an unreported limit
\* counts as 1 and an unreported usage as 0; usage 512000000 of limit
\* 1024000000 gives exactly 50.
C16_MemoryPercent ==
    \A t \in Sampled :
        LET x == SampleOf(t)
            usage == Reported(x.memory_stats.usage, 0)
            limit == Reported(x.memory_stats.limit, 1)
            p == ret[t].val.memory_percent
        IN  /\ ret[t].val.memory_usage = usage
            /\ ret[t].val.memory_limit = limit
            /\ p.d > 0
            /\ p.n >= 0
            /\ limit = 0 => p.n = 0
            /\ limit > 0 =>
                  LET g == GCD(usage, limit) IN
                  p.n * (limit \div g) = 100 * (usage \div g) * p.d
            /\ (usage = 512000000 /\ limit = 1024000000) => p = [n |-> 50, d |-> 1]

\* usage 512000000 of limit 1024000000 returned 50 percent
C16_Witness ==
    \E t \in Sampled :
        /\ SampleOf(t).memory_stats = MemoryStats(Some(512000000), Some(1024000000))
        /\ ret[t].val.memory_percent = [n |-> 50, d |-> 1]

\* C17, as claimed: every invocation ends by returning a success or an error
\* value; no task ends abnormally, whatever the daemon reports.
C17_NoAbnormalEnd ==
    \A t \in Tasks : pc[t] # "panicked"

\* the request each lifecycle command stands for
LifecycleKind ==
    [o \in {"start_container", "stop_container", "restart_container"} |->
        CASE o = "start_container" -> "start"
          [] o = "stop_container" -> "stop"
          [] o = "restart_container" -> "restart"]

\* C18: on a connected client, start_container, stop_container and
\* restart_container each send one request, of their own kind and for the id
\* given; a stop or restart request carries the grace period 10; the answer
\* ends the command, with success exactly when the daemon carried the request
\* out, and no request follows.
C18_Lifecycle ==
    [][\A t \in Tasks :
          cmd[t].op \in DOMAIN LifecycleKind =>
             /\ (pc[t] = "inner" /\ pc'[t] # "inner")
                => /\ pc'[t] = "await"
                   /\ nreq'[t] = 1
                   /\ req'[t].kind = LifecycleKind[cmd[t].op]
                   /\ req'[t].id = cmd[t].id
                   /\ req'[t].options =
                         IF cmd[t].op = "start_container" THEN <<>>
                         ELSE <<[t |-> 10]>>
             /\ (pc[t] = "await" /\ <<pc[t], req[t], nreq[t]>>' # <<pc[t], req[t], nreq[t]>>)
                => /\ pc'[t] = "done"
                   /\ nreq'[t] = 1
                   /\ req'[t] = NoReq
                   /\ ret'[t].tag = (IF Failing(t) THEN "Err" ELSE "Ok")
                   /\ acted' = IF Failing(t) THEN acted
                               ELSE acted \cup {<<req[t].kind, req[t].id>>}
                   /\ Failing(t) => daemon' = daemon]_vars

\* stop_container sent its one request and the daemon stopped the container;
\* restart_container of another caller was refused by a daemon gone since
C18_Witness ==
    \E t, u \in Tasks :
        /\ pc[t] = "done" /\ cmd[t].op = "stop_container" /\ cmd[t].id = CNginx.id
        /\ ret[t] = Ok(<<>>) /\ nreq[t] = 1
        /\ <<"stop", CNginx.id>> \in acted
        /\ \E i \in 1..Len(daemon.containers) :
              daemon.containers[i].id = CNginx.id /\ daemon.containers[i].state = "exited"
        /\ pc[u] = "done" /\ cmd[u].op = "restart_container"
        /\ ret[u].tag = "Err" /\ nreq[u] = 1

\* the decimal text of the tail values callers give
TailText == [n \in {0, 1, 2, 12, 100} |->
                CASE n = 0 -> "0" [] n = 1 -> "1" [] n = 2 -> "2"
                  [] n = 12 -> "12" [] n = 100 -> "100"]

\* the tail bound of task t's call: the value given, 100 when none is
TailBound(t) == IF cmd[t].tail = <<>> THEN 100 ELSE cmd[t].tail[1]

\* the lines the daemon delivers for task t's call: the last TailBound(t)
\* entries of the container's log, each behind its timestamp
LinesDue(t) ==
    LET log == daemon.logs[cmd[t].id]
        skip == IF Len(log) > TailBound(t) THEN Len(log) - TailBound(t) ELSE 0
    IN  [k \in 1..(Len(log) - skip) |->
            log[skip + k].time \o " " \o log[skip + k].message]

\* C19: get_container_logs asks for stdout and stderr with timestamps and the
\* tail bound given, 100 when none is given; every read of the stream either
\* takes the next line the daemon delivers or ends the command; on the end of
\* the stream the command returns all the lines delivered, in order; on a
\* daemon error it returns an error and no line.
C19_Logs ==
    [][\A t \in Tasks :
          cmd[t].op = "get_container_logs" =>
             /\ (pc[t] = "inner" /\ pc'[t] # "inner")
                => /\ pc'[t] = "await"
                   /\ nreq'[t] = 1
                   /\ req'[t].kind = "logs"
                   /\ req'[t].id = cmd[t].id
                   /\ req'[t].options =
                         <<[stdout |-> TRUE, stderr |-> TRUE, timestamps |-> TRUE,
                            tail |-> TailText[TailBound(t)]]>>
             /\ (pc[t] = "await" /\ <<pc[t], loc[t]>>' # <<pc[t], loc[t]>>)
                => /\ nreq'[t] = 1
                   /\ IF Failing(t)
                      THEN /\ pc'[t] = "done"
                           /\ ret'[t] = Err("Failed to get logs", Cause)
                      ELSE IF loc[t].logs = LinesDue(t)
                      THEN /\ pc'[t] = "done"
                           /\ ret'[t] = Ok(LinesDue(t))
                      ELSE /\ pc'[t] = "await"
                           /\ Len(loc'[t].logs) = Len(loc[t].logs) + 1
                           /\ loc'[t].logs
                                 = SubSeq(LinesDue(t), 1, Len(loc'[t].logs))]_vars

\* a call with tail 1 on a log of two entries returned the last entry alone,
\* behind its timestamp
C19_Witness ==
    \E t \in Tasks :
        /\ pc[t] = "done" /\ cmd[t].op = "get_container_logs"
        /\ cmd[t].tail = <<1>>
        /\ daemon.logs[cmd[t].id]
              = <<LogEntry("stdout", "t1", "ready"), LogEntry("stderr", "t2", "warn")>>
        /\ ret[t] = Ok(<<"t2 warn">>)

\* C20, as claimed: every exposed operation, get_container_logs included, is
\* a command of the invoke handler: no invocation of one by the caller layer
\* is turned away as an unknown command.
C20_AllInvocable ==
    \A t \in Tasks :
        (pc[t] = "done" /\ cmd[t].op \in Plain \cup ById)
        => ret[t].msg # "Command not found"

\* the role of the node an edge end names; nodes have distinct ids
RoleOf(topo, id) ==
    {topo.containers[k].container_type : k \in NodesWithId(topo, id)}

\* C21: every edge of a returned topology is gateway -> app labelled
\* "FastCGI", app -> database, or app -> cache labelled "Redis": none starts
\* or ends at a node of role other, none runs backwards, none joins two nodes
\* of one role. Managed containers of images nginx:latest and php:8.4-fpm that
\* share net1 and nothing else yield the single edge gateway -> app,
\* "FastCGI", on net1.
C21_EdgeShapes ==
    \A t \in Mapped :
        LET topo == ret[t].val IN
        /\ \A e \in 1..Len(topo.connections) :
              LET edge == topo.connections[e]
                  src == RoleOf(topo, edge.from)
                  dst == RoleOf(topo, edge.to)
              IN  /\ "other" \notin src \cup dst
                  /\ src \cap dst = {}
                  /\ \/ src = {"gateway"} /\ dst = {"app"} /\ edge.protocol = "FastCGI"
                     \/ src = {"app"} /\ dst = {"database"}
                           /\ edge.protocol \in {"MySQL", "PostgreSQL", "Database"}
                     \/ src = {"app"} /\ dst = {"cache"} /\ edge.protocol = "Redis"
        /\ (/\ daemon.containers = <<CForeign, CNginx, CPhp>>
            /\ daemon.inspect[CNginx.id] = InspectData(Some("nginx:latest"), Some({"net1"}))
            /\ daemon.inspect[CPhp.id] = InspectData(Some("php:8.4-fpm"), Some({"net1"})))
           => /\ Len(topo.containers) = 2
              /\ topo.containers[1].container_type = "gateway"
              /\ topo.containers[2].container_type = "app"
              /\ topo.connections
                    = <<[from |-> CNginx.id, to |-> CPhp.id,
                         protocol |-> "FastCGI", network |-> "net1"]>>

\* the nginx and php containers that share net1 were mapped to one edge
C21_Witness ==
    /\ \E t \in Mapped :
          /\ daemon.containers = <<CForeign, CNginx, CPhp>>
          /\ daemon.inspect[CNginx.id] = InspectData(Some("nginx:latest"), Some({"net1"}))
          /\ daemon.inspect[CPhp.id] = InspectData(Some("php:8.4-fpm"), Some({"net1"}))
          /\ Len(ret[t].val.connections) = 1

\* the lowercased image inspect reports for the container of id `id`
ImageOf(id) == to_lowercase(unwrap_or(daemon.inspect[id].image, ""))

\* C22: every app -> database edge is labelled from the database's name:
\* "MySQL" when the name contains mysql or mariadb, else "PostgreSQL" when it
\* contains postgres, else "Database"; and so a database whose image contains
\* mysql or mariadb is the target of "MySQL" edges only, one whose image
\* contains postgres of "PostgreSQL" edges only.
C22_DatabaseLabels ==
    \A t \in Mapped :
        LET topo == ret[t].val IN
        \A e \in 1..Len(topo.connections), k \in 1..Len(topo.containers) :
            LET edge == topo.connections[e]
                db == topo.containers[k]
            IN  (db.id = edge.to /\ db.container_type = "database")
                => /\ edge.protocol =
                         (IF Contains(db.name, "mysql") \/ Contains(db.name, "mariadb")
                          THEN "MySQL"
                          ELSE IF Contains(db.name, "postgres") THEN "PostgreSQL"
                          ELSE "Database")
                   /\ (Contains(ImageOf(db.id), "mysql")
                          \/ Contains(ImageOf(db.id), "mariadb"))
                      => edge.protocol = "MySQL"
                   /\ Contains(ImageOf(db.id), "postgres")
                      => edge.protocol = "PostgreSQL"

\* the patterns of the classification, earliest first, each with its role
RolePatterns ==
    <<<<"nginx", "gateway">>, <<"php", "app">>, <<"mysql", "database">>,
      <<"postgres", "database">>, <<"mariadb", "database">>,
      <<"redis", "cache">>, <<"memcache", "cache">>>>

\* the role of the earliest pattern a lowercased image contains
RoleFor(image) ==
    LET hits == {i \in 1..Len(RolePatterns) : Contains(image, RolePatterns[i][1])}
    IN  IF hits = {} THEN "other"
        ELSE RolePatterns[CHOOSE i \in hits : \A j \in hits : i <= j][2]

\* C23: the role of every node is the role of the earliest pattern its
\* image contains, letter case aside: gateway for nginx, else app for php,
\* else database for mysql, postgres or mariadb, else cache for redis or
\* memcache, else other, also for a missing image; it depends on nothing but
\* the node's own image, whatever other containers are listed before or
\* after it.
C23_RoleFromImage ==
    \A t \in Mapped :
        LET topo == ret[t].val IN
        \A k \in 1..Len(topo.containers) :
            /\ topo.containers[k].container_type = RoleFor(ImageOf(topo.containers[k].id))
            /\ topo.containers[k].container_type
                  \in {"gateway", "app", "database", "cache", "other"}
            /\ daemon.inspect[topo.containers[k].id].image = Some("NGINX:1.27")
                  => topo.containers[k].container_type = "gateway"

\* a node whose image contains both php and nginx is a gateway, listed after
\* a node without an image, which is of role other
C23_Witness ==
    \E t \in Mapped :
        LET topo == ret[t].val IN
        /\ Len(topo.containers) = 2
        /\ daemon.inspect[topo.containers[1].id].image = None
        /\ topo.containers[1].container_type = "other"
        /\ daemon.inspect[topo.containers[2].id].image = Some("webdevops/php-nginx:8.4")
        /\ topo.containers[2].container_type = "gateway"

\* the daemon's container of id `id` is running
RunningNow(id) ==
    \E i \in 1..Len(daemon.containers) :
        daemon.containers[i].id = id /\ daemon.containers[i].state = "running"

\* C24: a node whose inspect reports a health-check entry has health
\* healthy, starting or unhealthy when the entry's status is that value and
\* unknown for any other status or none, whether or not the container is
\* running; a node without a health-check entry is healthy when the inspect
\* reports it running and stopped otherwise, also when the running flag or
\* the whole state is missing. Health is always one of the five values.
C24_Health ==
    \A t \in Mapped :
        LET topo == ret[t].val IN
        \A k \in 1..Len(topo.containers) :
            LET node == topo.containers[k]
                report == daemon.inspect[node.id].state
                checked == report.reported /\ IsSome(report.health)
            IN  /\ node.health \in {"healthy", "starting", "unhealthy", "unknown", "stopped"}
                /\ checked =>
                      LET status == Unwrap(report.health).status IN
                      /\ \A v \in {"healthy", "starting", "unhealthy"} :
                            status = Some(v) => node.health = v
                      /\ status \notin {Some("healthy"), Some("starting"), Some("unhealthy")}
                            => node.health = "unknown"
                /\ ~checked =>
                      node.health =
                          (IF report.reported /\ report.running /\ RunningNow(node.id)
                           THEN "healthy" ELSE "stopped")

\* a stopped container whose health-check entry says healthy is mapped to a
\* healthy node
C24_Witness ==
    \E t \in Mapped :
        LET topo == ret[t].val IN
        /\ Len(topo.containers) = 1
        /\ ~RunningNow(topo.containers[1].id)
        /\ daemon.inspect[topo.containers[1].id].state.health = Some(Health(Some("healthy")))
        /\ topo.containers[1].health = "healthy"

RECURSIVE SumRx(_)
\* the sum of rx_bytes over a sequence of interfaces, as a number
SumRx(nets) == IF nets = <<>> THEN 0 ELSE Head(nets).rx_bytes + SumRx(Tail(nets))

RECURSIVE SumTx(_)
\* the sum of tx_bytes over a sequence of interfaces, as a number
SumTx(nets) == IF nets = <<>> THEN 0 ELSE Head(nets).tx_bytes + SumTx(Tail(nets))

\* C25: for every sample get_container_stats reports on, network_rx is the
\* sum of rx_bytes and network_tx the sum of tx_bytes over the interfaces of
\* the sample, in whatever order they are enumerated; both are 0 when the
\* sample has no network information or no interface.
C25_NetworkSums ==
    \A t \in Sampled :
        LET nets == unwrap_or(SampleOf(t).networks, <<>>) IN
        /\ ret[t].val.network_rx = SumRx(nets)
        /\ ret[t].val.network_tx = SumTx(nets)

\* the outer lock is taken before the inner one and outlives it, and a task
\* that is not running a command holds neither
LockOrder ==
    \A t \in Tasks :
        /\ clientLock = t => stateLock = t
        /\ pc[t] \notin {"outer", "inner", "await"} => stateLock # t /\ clientLock # t
        /\ pc[t] = "outer" => stateLock # t /\ clientLock # t

\* C26: the outer lock is always acquired before the inner one and both are
\* released on every return path; and, every daemon round trip coming back,
\* every command that was invoked eventually returns, whatever commands run
\* beside it.
C26_EveryCommandReturns ==
    /\ []LockOrder
    /\ \A t \in Tasks : (pc[t] = "outer") ~> (pc[t] = "done")

\* task t's command of name op returns in this step
Returns(t, op) == pc[t] # "done" /\ cmd[t].op = op /\ pc'[t] = "done"

\* C27: the handle changes only in a step in which connect_docker returns
\* Ok; a connect that fails leaves the handle as it was, present or absent,
\* and so does every step of every other command, daemon errors included. A
\* handle once present stays present, so check_docker_connection returns true
\* whenever it ran with a handle in place; and no daemon request is in
\* flight in a step that replaces the handle.
C27_HandleFrame ==
    [][/\ docker' # docker
          => /\ \E t \in Tasks : Returns(t, "connect_docker") /\ ret'[t] = Ok(<<TRUE>>)
             /\ \A u \in Tasks : pc[u] # "await" /\ req[u] = NoReq
       /\ \A t \in Tasks :
             (pc'[t] = "done" /\ pc[t] # "done" /\ ret'[t].tag = "Err") => docker' = docker
       /\ docker # NoHandle => docker' # NoHandle
       /\ \A t \in Tasks :
             (Returns(t, "check_docker_connection") /\ docker # NoHandle)
                => ret'[t] = Ok(<<TRUE>>)
      ]_vars

\* a connect has failed with a handle in place, the handle is still the one
\* it found, and check_docker_connection has returned true
C27_Witness ==
    \E t, u \in Tasks :
        /\ pc[t] = "done" /\ cmd[t].op = "connect_docker" /\ ret[t].tag = "Err"
        /\ seen[t] # NoHandle
        /\ docker = seen[t]
        /\ pc[u] = "done" /\ cmd[u].op = "check_docker_connection"
        /\ ret[u] = Ok(<<TRUE>>)
        /\ ~daemon.up

\* the tasks that hold the inner mutex or are about to lock it
AtInner == {t \in Tasks : pc[t] = "inner" \/ clientLock = t}

\* C28: a task is at the inner mutex only while it holds the outer one, and
\* keeps the outer one for as long as it holds the inner one; so at most one
\* task holds or awaits the inner mutex, and a task about to lock it finds
\* it free.
C28_InnerUncontended ==
    /\ \A t \in AtInner : stateLock = t
    /\ Cardinality(AtInner) <= 1
    /\ \A t \in Tasks : pc[t] = "inner" => MutexFree(clientLock)
    /\ \A t \in Tasks : pc[t] = "await" => clientLock = t

\* one task holds the inner mutex with a request in flight while the other
\* has been invoked and waits, at the outer mutex
C28_Witness ==
    \E t, u \in Tasks :
        /\ clientLock = t /\ stateLock = t /\ pc[t] = "await"
        /\ pc[u] = "outer"
        /\ cmd[u].op \notin {"check_docker_connection", "connect_docker"}

\* the ids the daemon was asked to inspect
Inspected == {a[2] : a \in {b \in acted : b[1] = "inspect"}}

\* C29: on an unchanged daemon, list_containers and get_network_topology
\* select the same containers: the ids and the names of the topology's nodes
\* are, in order, the ids and the names list_containers returns, whatever
\* names the daemon reports, none and an empty name list included; and the
\* containers inspected are exactly those.
C29_SameSelection ==
    (/\ pc[1] = "done" /\ cmd[1].op = "list_containers" /\ ret[1].tag = "Ok"
     /\ pc[2] = "done" /\ cmd[2].op = "get_network_topology" /\ ret[2].tag = "Ok")
    => LET listed == ret[1].val
           nodes == ret[2].val.containers
       IN  /\ Len(nodes) = Len(listed)
           /\ \A k \in 1..Len(nodes) :
                 /\ k <= Len(listed)
                 /\ nodes[k].id = listed[k].id
                 /\ nodes[k].name = listed[k].name
           /\ Inspected = {listed[k].id : k \in 1..Len(listed)}

\* the members of a sequence
Range(q) == {q[i] : i \in 1..Len(q)}

\* how often x occurs in a sequence
Count(q, x) == Cardinality({i \in 1..Len(q) : q[i] = x})

\* C30: two calls of get_network_topology on an unchanged daemon return the
\* same nodes in the same order, each with the same role, health, ip, ports,
\* cpu and mem and the same set of networks, and the same multiset of edges,
\* also for a container attached to several networks.
C30_Deterministic ==
    (1 \in Mapped /\ 2 \in Mapped)
    => LET first == ret[1].val
           second == ret[2].val
       IN  /\ Len(first.containers) = Len(second.containers)
           /\ \A k \in 1..Len(first.containers) :
                 LET m == first.containers[k]
                     n == second.containers[k]
                 IN  /\ k <= Len(second.containers)
                     /\ m.id = n.id /\ m.name = n.name
                     /\ m.container_type = n.container_type
                     /\ m.health = n.health
                     /\ m.ip = n.ip
                     /\ m.ports = n.ports
                     /\ m.cpu = n.cpu /\ m.mem = n.mem
                     /\ Range(m.networks) = Range(n.networks)
           /\ \A e \in Range(first.connections) \cup Range(second.connections) :
                 Count(first.connections, e) = Count(second.connections, e)

====
